---- MODULE Spec2Model ----
(***************************************************************************)
(* A model of the audit pipeline of the stylus-analyzer CLI:               *)
(*   - the rule registry / runner      (src/src/audit/mod.rs)              *)
(*   - the detection rules             (src/src/audit/*.rs)                *)
(*   - the weighted pattern detector   (src/src/audit/ai_patterns.rs)      *)
(*   - the report aggregator / scorer  (src/src/audit/report.rs)           *)
(*   - the audit command of main       (src/src/main.rs)                   *)
(*                                                                         *)
(* Source text is modelled by TLA+ strings, so `contains`, `to_lowercase`, *)
(* `format!` and string sorting are computed character by character.       *)
(* f64 confidences are modelled in thousandths, the risk score in thirds.  *)
(***************************************************************************)
EXTENDS Integers, Sequences, FiniteSets, TLC

VARIABLES
    result,     \* AuditResult handed to the aggregator (four buckets)
    report,     \* what generate_report produced for `result`, or NoReport
    rpc,        \* aggregator position: "build" | "reported"
    pattern_cache,  \* AIPatternDetector.pattern_cache: cache key -> patterns
    checks,     \* the check calls made on the detector, with what each returned
    file,       \* the contract file: its text and what the two grammars say
    rules,      \* AuditAnalyzer.rules of each analyzer: a Vec of rule objects
    failing,    \* ids of the rule objects whose check returns Err
    registered, \* the rules each analyzer held before any analyze call
    calls,      \* the analyze calls: position, locals, result
    mpc,        \* position of main in the audit command
    printed,    \* what main has written to stdout
    exit,       \* the Result main returned, "" while running
    source,     \* the text handed to single rules
    outcomes,   \* the check calls made on single rules, with what each returned
    input,      \* the text handed to ParsedContract::new, as the grammars read it
    contract,   \* what ParsedContract::new returned for `input`, or NotParsed
    pattern_list, \* what analyze_patterns returned for `contract`
    analyzer,   \* the StylusAnalyzer made by from_string, or NoAnalyzer
    variables   \* what extract_state_variables returned for `analyzer`

reportVars == <<result, report, rpc>>

detectorVars == <<pattern_cache, checks>>

runnerVars == <<file, rules, failing, registered, calls>>

mainVars == <<mpc, printed, exit>>

ruleVars == <<source, outcomes>>

parserVars == <<input, contract, pattern_list>>

stylusVars == <<analyzer, variables>>

vars == <<result, report, rpc, pattern_cache, checks,
          file, rules, failing, registered, calls, mpc, printed, exit,
          source, outcomes, input, contract, pattern_list, analyzer, variables>>

----------------------------------------------------------------------------
(* Strings *)

Min(a, b) == IF a <= b THEN a ELSE b

\* The printable ASCII characters in code order (0x20 .. 0x7E), without the
\* grave accent (0x60), which no string of the program contains.
Ascii ==
    " !\"#$%&'()*+,-./0123456789:;<=>?@ABCDEFGHIJKLMNOPQRSTUVWXYZ[\\]^_abcdefghijklmnopqrstuvwxyz{|}~"

CharAt(s, i) == SubSeq(s, i, i)

\* Code order of a one-character string; characters outside ASCII sort after it.
Ord(c) ==
    IF \E i \in 1..Len(Ascii) : CharAt(Ascii, i) = c
    THEN CHOOSE i \in 1..Len(Ascii) : CharAt(Ascii, i) = c
    ELSE Len(Ascii) + 1

\* str::contains(pattern)
Contains(s, k) ==
    \E i \in 1..(Len(s) - Len(k) + 1) : SubSeq(s, i, i + Len(k) - 1) = k

\* Ord for str: lexicographic comparison, a proper prefix sorts first.
StrLess(a, b) ==
    LET n == Min(Len(a), Len(b))
        diff == {i \in 1..n : CharAt(a, i) # CharAt(b, i)}
    IN  IF diff = {}
        THEN Len(a) < Len(b)
        ELSE LET i == CHOOSE j \in diff : \A k \in diff : j <= k
             IN  Ord(CharAt(a, i)) < Ord(CharAt(b, i))

----------------------------------------------------------------------------
(* Vulnerability and AuditResult *)

Severities == {"Critical", "High", "Medium", "Low"}

Vuln(n, s, d, r) ==
    [name |-> n, severity |-> s, risk_description |-> d, recommendation |-> r]

EmptyResult ==
    [critical_vulnerabilities |-> <<>>,
     high_vulnerabilities     |-> <<>>,
     medium_vulnerabilities   |-> <<>>,
     low_vulnerabilities      |-> <<>>]

\* A routing that ignores the severity.
RouteHigh(res, vuln) ==
    [res EXCEPT !.high_vulnerabilities = Append(@, vuln)]

\* The severity match of AuditAnalyzer::analyze: one vulnerability into its bucket.
Route(res, vuln) ==
    CASE vuln.severity = "Critical" ->
            [res EXCEPT !.critical_vulnerabilities = Append(@, vuln)]
      [] vuln.severity = "High" ->
            [res EXCEPT !.high_vulnerabilities = Append(@, vuln)]
      [] vuln.severity = "Medium" ->
            [res EXCEPT !.medium_vulnerabilities = Append(@, vuln)]
      [] vuln.severity = "Low" ->
            [res EXCEPT !.low_vulnerabilities = Append(@, vuln)]

RECURSIVE RouteAll(_, _)
RouteAll(res, vulns) ==
    IF vulns = <<>> THEN res
    ELSE RouteAll(Route(res, Head(vulns)), Tail(vulns))

----------------------------------------------------------------------------
(* Aggregator / scorer: src/src/audit/report.rs *)

\* format!("{}:{}", vuln.name, vuln.recommendation)
DedupKey(vuln) == vuln.name \o ":" \o vuln.recommendation

\* One `for vuln in &bucket` loop of generate_report over the shared `seen` set:
\* the vulnerabilities it formats into the report, and `seen` afterwards.
RECURSIVE ListBucket(_, _, _)
ListBucket(bucket, seen, listed) ==
    IF bucket = <<>> THEN [listed |-> listed, seen |-> seen]
    ELSE LET vuln == Head(bucket)
             key  == DedupKey(vuln)
         IN  IF key \notin seen
             THEN ListBucket(Tail(bucket), seen \cup {key}, Append(listed, vuln))
             ELSE ListBucket(Tail(bucket), seen, listed)

total_issues(res) ==
    Len(res.critical_vulnerabilities) + Len(res.high_vulnerabilities)
        + Len(res.medium_vulnerabilities) + Len(res.low_vulnerabilities)

critical_weight == 10
high_weight == 7
medium_weight == 4
low_weight == 1
\* max_score = 10.0 and the divisor 3.0 of normalized_score; the score is kept
\* in thirds, so that total_weight / 3.0 is the numerator total_weight.
max_score == 10
ScoreDivisor == 3

\* calculate_risk_score without the final min(max_score).
calculate_risk_score_unclamped(res) ==
    Len(res.critical_vulnerabilities) * critical_weight
        + Len(res.high_vulnerabilities) * high_weight
        + Len(res.medium_vulnerabilities) * medium_weight
        + Len(res.low_vulnerabilities) * low_weight

\* calculate_risk_score, in thirds (30 stands for 10.0).
calculate_risk_score(res) ==
    LET total_weight ==
            Len(res.critical_vulnerabilities) * critical_weight
          + Len(res.high_vulnerabilities) * high_weight
          + Len(res.medium_vulnerabilities) * medium_weight
          + Len(res.low_vulnerabilities) * low_weight
        normalized_score == total_weight
    IN  Min(normalized_score, max_score * ScoreDivisor)

\* bucket.iter().map(|vuln| format!("<n>. {}", vuln.recommendation))
RECURSIVE PriorityActions(_, _)
PriorityActions(prefix, bucket) ==
    IF bucket = <<>> THEN <<>>
    ELSE <<prefix \o Head(bucket).recommendation>>
            \o PriorityActions(prefix, Tail(bucket))

\* Vec<String>::sort
RECURSIVE InsertSorted(_, _)
InsertSorted(s, sorted) ==
    IF sorted = <<>> THEN <<s>>
    ELSE IF StrLess(s, Head(sorted)) THEN <<s>> \o sorted
    ELSE <<Head(sorted)>> \o InsertSorted(s, Tail(sorted))

RECURSIVE SortStrings(_)
SortStrings(seq) ==
    IF seq = <<>> THEN <<>>
    ELSE InsertSorted(Head(seq), SortStrings(Tail(seq)))

\* Vec::dedup: consecutive equal elements collapse to the first.
RECURSIVE Dedup(_)
Dedup(seq) ==
    IF Len(seq) <= 1 THEN seq
    ELSE IF seq[1] = seq[2] THEN Dedup(Tail(seq))
    ELSE <<seq[1]>> \o Dedup(Tail(seq))

\* &action[3..]
RECURSIVE StripPriority(_)
StripPriority(actions) ==
    IF actions = <<>> THEN <<>>
    ELSE <<SubSeq(Head(actions), 4, Len(Head(actions)))>>
            \o StripPriority(Tail(actions))

\* generate_action_items: the bullet texts in output order.
generate_action_items(res) ==
    LET actions ==
            PriorityActions("1. ", res.critical_vulnerabilities)
         \o PriorityActions("2. ", res.high_vulnerabilities)
         \o PriorityActions("3. ", res.medium_vulnerabilities)
    IN  StripPriority(Dedup(SortStrings(actions)))

\* generate_report: the score and count of the summary line, the vulnerabilities
\* formatted in each severity section, and the recommended actions.
generate_report(res) ==
    LET crit == ListBucket(res.critical_vulnerabilities, {}, <<>>)
        high == ListBucket(res.high_vulnerabilities, crit.seen, <<>>)
        med  == ListBucket(res.medium_vulnerabilities, high.seen, <<>>)
        low  == ListBucket(res.low_vulnerabilities, med.seen, <<>>)
        total == total_issues(res)
    IN  [risk_score |-> calculate_risk_score(res),
         total      |-> total,
         critical   |-> crit.listed,
         high       |-> high.listed,
         medium     |-> med.listed,
         low        |-> low.listed,
         actions    |-> IF total > 0 THEN generate_action_items(res) ELSE <<>>]

NoReport == [total |-> -1]

----------------------------------------------------------------------------
(* Aggregator state machine: an AuditResult is filled by routing            *)
(* vulnerabilities into it, then summarised once.                           *)

MaxVulns == 4

\* Vulnerabilities rules can emit.  The first, fourth and fifth are emitted by
\* UnsafeCallRule, MemorySafetyRule and TestPatternRule; the others stand for
\* rules registered through add_rule.
ReportVulns ==
    { Vuln("Unsafe Block Usage", "High",
           "Contract contains unsafe blocks that may lead to memory corruption",
           "Review and remove unsafe blocks if possible"),
      Vuln("Unsafe Block Usage", "Critical",
           "Contract contains unsafe blocks that may lead to memory corruption",
           "Review and remove unsafe blocks if possible"),
      Vuln("Unsafe Block Usage", "Medium",
           "Contract contains unsafe blocks that may lead to memory corruption",
           "Review and remove unsafe blocks if possible"),
      Vuln("Unsafe Block Usage", "Critical",
           "Unsafe blocks can bypass Rust's memory safety guarantees",
           "Remove unsafe blocks or provide strong safety invariants"),
      Vuln("Missing Fuzz Testing", "Low",
           "Edge cases may not be discovered through regular testing",
           "Implement property-based testing using quickcheck or proptest"),
      Vuln("Storage: Access", "Medium",
           "Storage modification without access control",
           "Control"),
      Vuln("Storage", "Medium",
           "Storage modification without access control",
           " Access:Control") }

\* No AuditResult built yet.
ReportStart ==
    /\ result = EmptyResult
    /\ report = NoReport
    /\ rpc = "build"

\* AIPatternDetector::new: an empty cache, no call made.
DetectorStart ==
    /\ pattern_cache = <<>>
    /\ checks = <<>>

\* ParsedContract::new has not been given anything.
ParserIdle ==
    /\ input = <<>>
    /\ contract = <<>>
    /\ pattern_list = <<>>

\* No StylusAnalyzer has been made.
StylusIdle ==
    /\ analyzer = <<>>
    /\ variables = <<>>

\* No text handed to a single rule.
RulesIdle ==
    /\ source = <<>>
    /\ outcomes = <<>>
    /\ ParserIdle
    /\ StylusIdle

\* No analyzer, no file, main not entered.
RunnerIdle ==
    /\ file = [readable |-> FALSE, text |-> <<>>, solidity |-> FALSE, rust |-> FALSE]
    /\ rules = <<>>
    /\ failing = {}
    /\ registered = <<>>
    /\ calls = <<>>
    /\ mpc = "none"
    /\ printed = <<>>
    /\ exit = ""

ReportInit == ReportStart /\ DetectorStart /\ RunnerIdle /\ RulesIdle

PushVuln(vuln) ==
    /\ rpc = "build"
    /\ total_issues(result) < MaxVulns
    /\ result' = Route(result, vuln)
    /\ UNCHANGED <<report, rpc, detectorVars, ruleVars, parserVars, stylusVars, runnerVars, mainVars>>

GenerateReport ==
    /\ rpc = "build"
    /\ report' = generate_report(result)
    /\ rpc' = "reported"
    /\ UNCHANGED <<result, detectorVars, ruleVars, parserVars, stylusVars, runnerVars, mainVars>>

ReportNext ==
    \/ \E vuln \in ReportVulns : PushVuln(vuln)
    \/ GenerateReport

SpecReport == ReportInit /\ [][ReportNext]_vars

----------------------------------------------------------------------------
(* Claims about the aggregator, checked under SpecReport *)

\* Every vulnerability of the four buckets of an AuditResult.
AllVulns(res) ==
    { res.critical_vulnerabilities[i] : i \in DOMAIN res.critical_vulnerabilities }
        \cup { res.high_vulnerabilities[i] : i \in DOMAIN res.high_vulnerabilities }
        \cup { res.medium_vulnerabilities[i] : i \in DOMAIN res.medium_vulnerabilities }
        \cup { res.low_vulnerabilities[i] : i \in DOMAIN res.low_vulnerabilities }

SameFinding(v, w) ==
    v.name = w.name /\ v.recommendation = w.recommendation

\* The vulnerabilities of a bucket that no earlier one of the bucket repeats.
RECURSIVE FirstOccurrences(_, _)
FirstOccurrences(bucket, n) ==
    IF n = 0 THEN <<>>
    ELSE IF \E j \in 1..(n - 1) : SameFinding(bucket[j], bucket[n])
         THEN FirstOccurrences(bucket, n - 1)
         ELSE Append(FirstOccurrences(bucket, n - 1), bucket[n])

\* C7: the action-item list holds exactly one entry for each unique
\* (name, recommendation) vulnerability of the AuditResult, taken over all four
\* severity buckets.
C7_ActionItemsCoverEveryFinding ==
    rpc = "reported" =>
        LET findings == { <<v.name, v.recommendation>> : v \in AllVulns(result) }
        IN  /\ Len(report.actions) = Cardinality(findings)
            /\ \A f \in findings :
                  \E i \in DOMAIN report.actions : report.actions[i] = f[2]

\* C8: in each bucket a vulnerability is listed if and only if no earlier
\* vulnerability of that bucket has the same (name, recommendation), and the
\* listed ones keep their insertion order.
C8_DedupWithinBucket ==
    rpc = "reported" =>
        /\ report.critical = FirstOccurrences(result.critical_vulnerabilities,
                                              Len(result.critical_vulnerabilities))
        /\ report.high = FirstOccurrences(result.high_vulnerabilities,
                                          Len(result.high_vulnerabilities))
        /\ report.medium = FirstOccurrences(result.medium_vulnerabilities,
                                            Len(result.medium_vulnerabilities))
        /\ report.low = FirstOccurrences(result.low_vulnerabilities,
                                         Len(result.low_vulnerabilities))

ListedIn(listing, v) ==
    \E i \in DOMAIN listing : SameFinding(listing[i], v)

InBucket(bucket, v) ==
    \E i \in DOMAIN bucket : SameFinding(bucket[i], v)

\* C9: deduplication is scoped per bucket: a finding of the High, Medium or Low
\* bucket is still listed in its section when a finding with the same
\* (name, recommendation) was already listed in a higher-severity section.
C9_DedupScopedPerBucket ==
    rpc = "reported" =>
        /\ \A i \in DOMAIN result.high_vulnerabilities :
              LET v == result.high_vulnerabilities[i]
              IN  ListedIn(report.critical, v) => ListedIn(report.high, v)
        /\ \A i \in DOMAIN result.medium_vulnerabilities :
              LET v == result.medium_vulnerabilities[i]
              IN  (ListedIn(report.critical, v) \/ ListedIn(report.high, v))
                      => ListedIn(report.medium, v)
        /\ \A i \in DOMAIN result.low_vulnerabilities :
              LET v == result.low_vulnerabilities[i]
              IN  (ListedIn(report.critical, v) \/ ListedIn(report.high, v)
                      \/ ListedIn(report.medium, v))
                      => ListedIn(report.low, v)

\* The severity-weighted sum of the bucket lengths of the claim.
WeightedCount(res) ==
    10 * Len(res.critical_vulnerabilities) + 7 * Len(res.high_vulnerabilities)
        + 4 * Len(res.medium_vulnerabilities) + 1 * Len(res.low_vulnerabilities)

\* C10: the risk score equals min(10, (10*critical + 7*high + 4*medium
\* + 1*low) / 3), the counts being the bucket lengths.  Scores are in thirds:
\* three times the score is min(30, weighted sum).
C10_RiskScoreFormula ==
    rpc = "reported" =>
        IF WeightedCount(result) >= 30
        THEN report.risk_score = 30
        ELSE report.risk_score = WeightedCount(result)

\* A summarised result whose weighted sum exceeds the clamp, low bucket included.
C10_Witness ==
    /\ rpc = "reported"
    /\ WeightedCount(result) > 30
    /\ Len(result.low_vulnerabilities) > 0
    /\ report.risk_score = 30

----------------------------------------------------------------------------
(* Source text.  A Rust &str is UTF-8; it is modelled as the sequence of its  *)
(* runs: maximal ASCII pieces alternating with single non-ASCII characters    *)
(* given by code point.  No run is empty and no two ASCII runs are adjacent,  *)
(* so equal strings have equal representations.                               *)

Text(s) == [wide |-> FALSE, text |-> s, code |-> 0]
Wide(cp) == [wide |-> TRUE, text |-> "", code |-> cp]

\* content.contains(k) for an ASCII pattern k: a match lies inside one ASCII run.
Has(content, k) ==
    \E i \in DOMAIN content : ~content[i].wide /\ Contains(content[i].text, k)

\* The byte of an ASCII character (Ascii leaves out 0x60).
AsciiCode(c) == IF Ord(c) <= 64 THEN Ord(c) + 31 ELSE Ord(c) + 32

\* The UTF-8 encoding of a non-ASCII code point below U+10000.
Utf8(cp) ==
    IF cp < 2048
    THEN <<192 + (cp \div 64), 128 + (cp % 64)>>
    ELSE <<224 + (cp \div 4096), 128 + ((cp \div 64) % 64), 128 + (cp % 64)>>

RunLen(run) == IF run.wide THEN Len(Utf8(run.code)) ELSE Len(run.text)

RunBytes(run) ==
    IF run.wide THEN Utf8(run.code)
    ELSE [i \in 1..Len(run.text) |-> AsciiCode(CharAt(run.text, i))]

\* str::len: the length in bytes.
RECURSIVE ByteLen(_)
ByteLen(content) ==
    IF content = <<>> THEN 0 ELSE RunLen(Head(content)) + ByteLen(Tail(content))

\* str::as_bytes
RECURSIVE Bytes(_)
Bytes(content) ==
    IF content = <<>> THEN <<>> ELSE RunBytes(Head(content)) \o Bytes(Tail(content))

None == [some |-> FALSE, val |-> <<>>]
Some(v) == [some |-> TRUE, val |-> v]

\* content.get(0..n): None when n is past the end or inside a character.
RECURSIVE StrGet(_, _)
StrGet(content, n) ==
    IF n = 0 THEN Some(<<>>)
    ELSE IF content = <<>> THEN None
    ELSE LET run == Head(content)
         IN  IF run.wide
             THEN IF n < RunLen(run) THEN None
                  ELSE LET rest == StrGet(Tail(content), n - RunLen(run))
                       IN  IF rest.some THEN Some(<<run>> \o rest.val) ELSE None
             ELSE IF n <= Len(run.text)
                  THEN Some(<<Text(SubSeq(run.text, 1, n))>>)
                  ELSE LET rest == StrGet(Tail(content), n - Len(run.text))
                       IN  IF rest.some THEN Some(<<run>> \o rest.val) ELSE None

UpperCase == "ABCDEFGHIJKLMNOPQRSTUVWXYZ"
LowerCase == "abcdefghijklmnopqrstuvwxyz"

\* char::to_lowercase on ASCII
LowerChar(c) ==
    IF \E i \in 1..Len(UpperCase) : CharAt(UpperCase, i) = c
    THEN CharAt(LowerCase, CHOOSE i \in 1..Len(UpperCase) : CharAt(UpperCase, i) = c)
    ELSE c

\* str::to_lowercase of an ASCII string
RECURSIVE to_lowercase(_)
to_lowercase(s) ==
    IF Len(s) = 0 THEN s
    ELSE LowerChar(CharAt(s, 1)) \o to_lowercase(SubSeq(s, 2, Len(s)))

----------------------------------------------------------------------------
(* Weighted pattern detector: src/src/audit/ai_patterns.rs                   *)
(* Confidences and the threshold are f64 multiples of 0.05 in the source;     *)
(* they are kept in thousandths (850 stands for 0.85), weights in tenths.     *)

\* AIPatternDetector::new: pattern_weights, in tenths
pattern_weights ==
    [k \in { "memory_safety", "access_control", "storage_pattern", "cross_chain",
             "l2_optimization", "batch_operations", "calldata_compression",
             "state_packing", "stylus_pattern", "wasm_pattern", "precompile",
             "arithmetic_safety", "event_validation", "upgrade_safety",
             "dos_protection", "input_validation", "timestamp_dependence" } |->
        CASE k \in {"memory_safety", "cross_chain"} -> 15
          [] k \in {"access_control", "l2_optimization", "calldata_compression",
                    "stylus_pattern", "wasm_pattern", "arithmetic_safety",
                    "dos_protection"} -> 14
          [] k \in {"storage_pattern", "batch_operations", "state_packing",
                    "precompile", "upgrade_safety", "input_validation",
                    "timestamp_dependence"} -> 13
          [] k = "event_validation" -> 12]

\* AIPatternDetector::new: learning_threshold 0.80
learning_threshold == 800

\* unwrap_or(1.0), in tenths
DefaultWeight == 10

\* 1.0 in thousandths: the clamp of apply_pattern_weights
FullConfidence == 1000

\* The pattern_weights lookup of apply_pattern_weights, with the table key
\* passed in: self.pattern_weights.get(key).copied().unwrap_or(1.0)
WeightOf(key) ==
    IF key \in DOMAIN pattern_weights THEN pattern_weights[key] ELSE DefaultWeight

\* The key apply_pattern_weights looks a pattern up by.
WeightKey(pattern) == to_lowercase(pattern)

\* A weighting by 1.5 that leaves out the final min(1.0).
WeightedUnclamped(p) ==
    <<p[1], (p[2] * 15) \div 10>>

\* apply_pattern_weights on one (pattern, confidence) pair
Weighted(p) ==
    <<p[1], Min((p[2] * WeightOf(WeightKey(p[1]))) \div 10, FullConfidence)>>

apply_pattern_weights(patterns) ==
    [i \in DOMAIN patterns |-> Weighted(patterns[i])]

\* A scoring step that lowers the confidence when its condition is false.
BumpOrDrop(cond, delta) == IF cond THEN delta ELSE 0 - delta

\* `confidence += delta` under a condition
Bump(cond, delta) == IF cond THEN delta ELSE 0

\* One `if trigger { ...; patterns.push((name, confidence)) }` block.
Scored(trigger, name, confidence) ==
    IF trigger THEN <<(<<name, confidence>>)>> ELSE <<>>

detect_security_patterns(c) ==
    Scored(Has(c, "pub fn") \/ Has(c, "public") \/ Has(c, "external"),
           "Access Control Risk",
           850 + Bump(~Has(c, "#[access_control") /\ ~Has(c, "require!(msg.sender"), 100)
               + Bump(Has(c, "owner") \/ Has(c, "admin") \/ Has(c, "role"), 50))
 \o Scored(Has(c, "unsafe") \/ Has(c, "*mut") \/ Has(c, "*const") \/ Has(c, "raw pointer"),
           "Memory Safety Risk",
           900 + Bump(~Has(c, "Box<") /\ ~Has(c, "Rc<"), 50)
               + Bump(Has(c, "transmute") \/ Has(c, "offset"), 50))
 \o Scored(Has(c, "external_call") \/ Has(c, "send") \/ Has(c, "transfer") \/ Has(c, "call"),
           "Reentrancy Risk",
           900 + Bump(Has(c, "self.") /\ ~Has(c, "mutex") /\ ~Has(c, "reentrancy_guard"), 50)
               + Bump(Has(c, "balance") \/ Has(c, "withdraw") \/ Has(c, "eth_transfer"), 50))
 \o Scored(Has(c, "u256") \/ Has(c, "u128") \/ Has(c, "arithmetic") \/ Has(c, "math"),
           "Arithmetic Safety Risk",
           850 + Bump(~Has(c, "checked_add") /\ ~Has(c, "checked_mul"), 100)
               + Bump(Has(c, "unchecked") \/ Has(c, "unsafe_") \/ Has(c, "overflow"), 50))
 \o Scored(Has(c, "loop") \/ Has(c, "for") \/ Has(c, "while") \/ Has(c, "array"),
           "DoS Risk",
           800 + Bump(~Has(c, "limit") /\ ~Has(c, "max_"), 150)
               + Bump(Has(c, "push") \/ Has(c, "extend"), 50))
 \o Scored(Has(c, "input") \/ Has(c, "param") \/ Has(c, "argument"),
           "Input Validation Risk",
           800 + Bump(~Has(c, "validate") /\ ~Has(c, "require") /\ ~Has(c, "assert"), 150)
               + Bump(Has(c, "external") \/ Has(c, "public"), 50))

detect_l2_optimization_patterns(c) ==
    Scored(Has(c, "loop") \/ Has(c, "for") \/ Has(c, "while"),
           "Batch Operations",
           750 + Bump(~Has(c, "batch"), 150)
               + Bump(Has(c, "array") \/ Has(c, "vec"), 100))
 \o Scored(Has(c, "calldata") \/ Has(c, "input"),
           "Calldata Optimization",
           750 + Bump(~Has(c, "compress") /\ ~Has(c, "packed"), 150)
               + Bump(Has(c, "encoding") \/ Has(c, "decode"), 100))
 \o Scored(Has(c, "struct") \/ Has(c, "StorageMap"),
           "State Packing",
           750 + Bump(~Has(c, "#[repr(packed)]"), 150)
               + Bump(Has(c, "storage") \/ Has(c, "state"), 100))

detect_stylus_specific_patterns(c) ==
    Scored(Has(c, "stylus_sdk"),
           "Stylus SDK Usage",
           750 + Bump(~Has(c, "#[stylus_sdk::contract]"), 150)
               + Bump(Has(c, "precompile") \/ Has(c, "native"), 100))
 \o Scored(Has(c, "precompile"),
           "Precompile Usage",
           750 + Bump(~Has(c, "verify"), 150)
               + Bump(Has(c, "unsafe") \/ Has(c, "external"), 100))
 \o Scored(Has(c, "wasm"),
           "WASM Optimization",
           750 + Bump(~Has(c, "memory"), 150)
               + Bump(Has(c, "export") \/ Has(c, "import"), 100))

detect_advanced_patterns(c) ==
    Scored(Has(c, "event") \/ Has(c, "emit") \/ Has(c, "#[event]"),
           "Event Validation",
           800 + Bump(~Has(c, "indexed"), 100)
               + Bump(Has(c, "anonymous") \/ ~Has(c, "topic"), 100))
 \o Scored(Has(c, "upgrade") \/ Has(c, "proxy") \/ Has(c, "implementation"),
           "Upgrade Safety",
           850 + Bump(~Has(c, "initialize") \/ ~Has(c, "version"), 100)
               + Bump(Has(c, "storage") /\ Has(c, "layout"), 50))
 \o Scored(Has(c, "bridge") \/ Has(c, "cross-chain") \/ Has(c, "L1") \/ Has(c, "L2"),
           "Cross-chain Security",
           900 + Bump(~Has(c, "verify") \/ ~Has(c, "proof"), 50)
               + Bump(Has(c, "message") \/ Has(c, "relay") \/ Has(c, "gateway"), 50))
 \o Scored(Has(c, "timestamp") \/ Has(c, "block.timestamp") \/ Has(c, "now"),
           "Timestamp Dependence",
           850 + Bump(~Has(c, "grace_period") \/ ~Has(c, "time_buffer"), 100)
               + Bump(Has(c, "require") /\ Has(c, "time"), 50))

\* The four detect_* passes of analyze_semantic_patterns, before weighting.
RawPatterns(c) ==
    detect_security_patterns(c) \o detect_l2_optimization_patterns(c)
        \o detect_stylus_specific_patterns(c) \o detect_advanced_patterns(c)

\* The length of the cache-key prefix: content.get(0..100)
CacheKeyLen == 100

\* A cache key that is always the whole content.
cache_key_full(content) == content

\* content.get(0..100).unwrap_or(content).to_string()
cache_key(content) ==
    LET prefix == StrGet(content, CacheKeyLen)
    IN  IF prefix.some THEN prefix.val ELSE content

\* analyze_semantic_patterns: the patterns returned and the cache afterwards.
analyze_semantic_patterns(cache, content) ==
    LET key == cache_key(content)
    IN  IF key \in DOMAIN cache
        THEN [hit |-> TRUE, raw |-> <<>>, patterns |-> cache[key], cache |-> cache]
        ELSE LET raw == RawPatterns(content)
                 patterns == apply_pattern_weights(raw)
             IN  [hit |-> FALSE, raw |-> raw, patterns |-> patterns,
                  cache |-> [k \in DOMAIN cache \cup {key} |->
                                IF k = key THEN patterns ELSE cache[k]]]

\* The match of AIPatternDetector::check: the Vulnerability a pattern name is
\* translated into, or nothing (`_ => continue`).
pattern_vulnerability(pattern) ==
    CASE pattern = "Access Control Risk" ->
            <<Vuln("Missing Access Control", "High",
                   "Functions lack proper access control mechanisms",
                   "Implement role-based access control using Stylus SDK's security features")>>
      [] pattern = "Memory Safety Risk" ->
            <<Vuln("Memory Safety Issue", "Critical",
                   "Potential memory corruption from unsafe operations",
                   "Replace unsafe operations with safe alternatives and use Rust's ownership system")>>
      [] pattern = "Reentrancy Risk" ->
            <<Vuln("Reentrancy Vulnerability", "Critical",
                   "Contract state could be manipulated through external calls",
                   "Implement reentrancy guards and follow checks-effects-interactions pattern")>>
      [] pattern = "Arithmetic Safety Risk" ->
            <<Vuln("Arithmetic Safety Risk", "High",
                   "Potential integer overflow/underflow in calculations",
                   "Use checked arithmetic operations and consider using SafeMath equivalents")>>
      [] pattern = "Batch Operations" ->
            <<Vuln("Unoptimized Batch Operations", "Medium",
                   "Inefficient gas usage in loop operations",
                   "Implement batch processing and optimize loop conditions")>>
      [] pattern = "State Packing" ->
            <<Vuln("Inefficient State Packing", "Low",
                   "Suboptimal storage layout increases gas costs",
                   "Use packed structs and optimize storage slot usage")>>
      [] pattern = "Event Validation" ->
            <<Vuln("Insufficient Event Validation", "Medium",
                   "Events may lack proper validation or indexing",
                   "Add proper event parameter validation and optimize indexing")>>
      [] pattern = "Upgrade Safety" ->
            <<Vuln("Upgrade Safety Concerns", "High",
                   "Contract upgrades may introduce vulnerabilities",
                   "Implement proper upgrade patterns and storage layout checks")>>
      [] pattern = "Cross-chain Security" ->
            <<Vuln("Cross-chain Interaction Risks", "Critical",
                   "Unsafe cross-chain message handling",
                   "Implement proper message verification and handle edge cases")>>
      [] pattern = "DoS Risk" ->
            <<Vuln("Denial of Service Risk", "High",
                   "Potential for denial-of-service attacks due to unbounded loops or resource consumption.",
                   "Implement input validation and resource limits to prevent DoS attacks.")>>
      [] pattern = "Input Validation Risk" ->
            <<Vuln("Insufficient Input Validation", "High",
                   "Lack of input validation can lead to unexpected behavior or vulnerabilities.",
                   "Implement robust input validation to sanitize and check all inputs before processing.")>>
      [] pattern = "Timestamp Dependence" ->
            <<Vuln("Timestamp Dependence Vulnerability", "Medium",
                   "Contract logic relies on block timestamps, which can be manipulated by miners.",
                   "Avoid using block timestamps for critical logic; use timelocks or other mechanisms for predictable timing.")>>
      [] OTHER -> <<>>

\* The loop with `>=` in place of `>`.
RECURSIVE translate_patterns_inclusive(_)
translate_patterns_inclusive(patterns) ==
    IF patterns = <<>> THEN <<>>
    ELSE LET p == Head(patterns)
         IN  (IF p[2] >= learning_threshold THEN pattern_vulnerability(p[1]) ELSE <<>>)
                \o translate_patterns_inclusive(Tail(patterns))

\* The loop of AIPatternDetector::check over the weighted patterns.
RECURSIVE translate_patterns(_)
translate_patterns(patterns) ==
    IF patterns = <<>> THEN <<>>
    ELSE LET p == Head(patterns)
         IN  (IF p[2] > learning_threshold THEN pattern_vulnerability(p[1]) ELSE <<>>)
                \o translate_patterns(Tail(patterns))

\* AIPatternDetector::check on a detector whose pattern_cache is `cache`.
detector_check(cache, content) ==
    LET analysed == analyze_semantic_patterns(cache, content)
    IN  [hit |-> analysed.hit, raw |-> analysed.raw, patterns |-> analysed.patterns,
         cache |-> analysed.cache,
         vulnerabilities |-> translate_patterns(analysed.patterns)]

----------------------------------------------------------------------------
(* Detector state machine: one AIPatternDetector instance is given a         *)
(* sequence of check calls.                                                   *)

MaxChecks == 3

\* A comment line of 99 and of 100 ASCII bytes.
Header99 ==
    "//-------------------------------------------------------------------------------------------------"
Header100 ==
    "//--------------------------------------------------------------------------------------------------"

\* Source texts handed to check.
DetectorContents ==
    { <<Text("pub fn get(&self) -> u256 { self.count.get() }")>>,
      <<Text("fn run() { for i in 0..limit { step(i) } }")>>,
      <<Text("use stylus_sdk::prelude::*; #[no_mangle] fn wasm_main() { export() }")>>,
      <<Text(Header100 \o " fn read(p: *mut u8) -> u8 { unsafe { *p } }")>>,
      <<Text(Header100 \o " fn wasm_entry() { export() }")>>,
      <<Text(Header99), Wide(233), Text(" fn read(p: *mut u8) -> u8 { unsafe { *p } }")>>,
      <<Text(Header99), Wide(232), Text(" fn wasm_entry() { export() }")>> }

DetectorInit == DetectorStart /\ ReportStart /\ RunnerIdle /\ RulesIdle

\* check(content) on the detector; `checks` records each call and its outcome.
DetectorCheck(content) ==
    /\ Len(checks) < MaxChecks
    /\ LET out == detector_check(pattern_cache, content)
       IN  /\ pattern_cache' = out.cache
           /\ checks' = Append(checks,
                  [content |-> content, hit |-> out.hit, raw |-> out.raw,
                   patterns |-> out.patterns, vulnerabilities |-> out.vulnerabilities])
    /\ UNCHANGED <<reportVars, ruleVars, parserVars, stylusVars, runnerVars, mainVars>>

DetectorNext == \E content \in DetectorContents : DetectorCheck(content)

SpecDetector == DetectorInit /\ [][DetectorNext]_vars

----------------------------------------------------------------------------
(* Claims about the weighted detector, checked under SpecDetector *)

\* The first n elements of a sequence.
FirstBytes(seq, n) == SubSeq(seq, 1, Min(n, Len(seq)))

\* Byte offset n is not strictly inside a multi-byte character of the content.
CharBoundary(content, n) ==
    \A i \in DOMAIN content :
        content[i].wide =>
            LET start == ByteLen(SubSeq(content, 1, i - 1))
            IN  ~(start < n /\ n < start + RunLen(content[i]))

\* Two different contents of at least 100 bytes with the same first 100 bytes.
SharePrefix(x, y) ==
    /\ x # y
    /\ ByteLen(x) >= 100
    /\ ByteLen(y) >= 100
    /\ FirstBytes(Bytes(x), 100) = FirstBytes(Bytes(y), 100)

\* C4 as stated: after check(X), a later check(Y) with Y # X, both at least
\* 100 bytes long and sharing their first 100 bytes, returns the
\* vulnerabilities returned for X.
C4_PrefixAliasingAnyPrefix ==
    \A i, j \in DOMAIN checks :
        (i < j /\ SharePrefix(checks[i].content, checks[j].content))
            => checks[j].vulnerabilities = checks[i].vulnerabilities

\* C4 (amended): the same, provided byte offset 100 is a character boundary
\* of the contents; the later call is then answered from the cache.
C4_PrefixAliasing ==
    \A i, j \in DOMAIN checks :
        (/\ i < j
         /\ SharePrefix(checks[i].content, checks[j].content)
         /\ CharBoundary(checks[i].content, 100))
            => /\ checks[j].hit
               /\ checks[j].vulnerabilities = checks[i].vulnerabilities

\* Two such calls whose second answer differs from a fresh detector's.
C4_Witness ==
    \E i, j \in DOMAIN checks :
        /\ i < j
        /\ SharePrefix(checks[i].content, checks[j].content)
        /\ CharBoundary(checks[i].content, 100)
        /\ checks[j].vulnerabilities = checks[i].vulnerabilities
        /\ checks[j].vulnerabilities
              # detector_check(<<>>, checks[j].content).vulnerabilities

\* The PatternWeightTable entry the claim associates with a scored category.
CategoryKey(pattern) ==
    CASE pattern = "Memory Safety Risk" -> "memory_safety"
      [] pattern = "Access Control Risk" -> "access_control"
      [] pattern = "Arithmetic Safety Risk" -> "arithmetic_safety"
      [] pattern = "Input Validation Risk" -> "input_validation"
      [] pattern = "Batch Operations" -> "batch_operations"
      [] pattern = "State Packing" -> "state_packing"
      [] pattern = "Event Validation" -> "event_validation"
      [] pattern = "Upgrade Safety" -> "upgrade_safety"
      [] pattern = "Timestamp Dependence" -> "timestamp_dependence"
      [] OTHER -> "none"

\* C5: for every scored category with an entry in the PatternWeightTable
\* (memory safety 1.5, access control 1.4, ...) the final confidence is
\* min(1, raw confidence * the category's weight).
C5_CategoryWeighting ==
    \A n \in DOMAIN checks :
        ~checks[n].hit =>
            \A i \in DOMAIN checks[n].raw :
                LET key == CategoryKey(checks[n].raw[i][1])
                IN  key \in DOMAIN pattern_weights =>
                        checks[n].patterns[i][2]
                            = Min(1000, (checks[n].raw[i][2] * pattern_weights[key]) \div 10)

\* C6: every pattern of the scoring pass whose final confidence is strictly
\* greater than 0.80 is translated into exactly one Vulnerability of the
\* result of check.
C6_ThresholdTranslation ==
    \A n \in DOMAIN checks :
        Len(checks[n].vulnerabilities)
            = Cardinality({ i \in DOMAIN checks[n].patterns :
                                checks[n].patterns[i][2] > 800 })

----------------------------------------------------------------------------
(* Boolean detection rules: the Ok value of each AuditRule::check            *)

\* `if cond { vulnerabilities.push(vuln) }`
When(cond, vuln) == IF cond THEN <<vuln>> ELSE <<>>

\* src/src/audit/patterns.rs
ReentrancyPattern_check(c) ==
    When(Has(c, "external") /\ Has(c, "call"),
         Vuln("Potential Reentrancy", "High",
              "External call detected before state changes",
              "Implement checks-effects-interactions pattern"))

L2SpecificPattern_check(c) ==
    When(Has(c, "block.number") \/ Has(c, "block.timestamp"),
         Vuln("L2 Timing Assumptions", "Medium",
              "Usage of block.number or block.timestamp in L2 context",
              "Use L2-specific timing mechanisms or account for L2 block timing"))

StorageSecurityPattern_check(c) ==
    IF Has(c, "StorageMap") \/ Has(c, "StorageVec")
    THEN LET has_bounds_check == Has(c, ".get_or_default()") \/ Has(c, "if let Some")
             has_access_control == Has(c, "#[authorize") \/ Has(c, "require!(")
         IN  When(~has_bounds_check,
                  Vuln("Unsafe Storage Access", "High",
                       "Storage access without bounds checking",
                       "Implement bounds checking with get_or_default() or Option handling"))
          \o When(~has_access_control,
                  Vuln("Missing Storage Access Control", "High",
                       "Storage modification without access control",
                       "Add access control checks using authorize attribute or require macro"))
    ELSE <<>>

StateTransitionPattern_check(c) ==
    IF Has(c, "pub fn") /\ (Has(c, "mut self") \/ Has(c, "&mut self"))
    THEN LET has_state_validation == Has(c, "ensure!(") \/ Has(c, "require!(")
             has_event_emission == Has(c, "emit!(") \/ Has(c, "log!(")
         IN  When(~has_state_validation,
                  Vuln("Missing State Validation", "Medium",
                       "State transition without proper validation",
                       "Add state validation using ensure! or require! macros"))
          \o When(~has_event_emission,
                  Vuln("Missing Event Emission", "Low",
                       "State change without event emission",
                       "Emit events for all important state transitions"))
    ELSE <<>>

\* A cross-chain rule that reports the missing verification only where the
\* delay is missing too.
CrossChainNested_check(c) ==
    IF Has(c, "cross_chain") \/ Has(c, "bridge") \/ Has(c, "L1_to_L2")
    THEN IF ~(Has(c, "delay") \/ Has(c, "timelock"))
         THEN <<Vuln("Missing Cross-Chain Delay", "High",
                     "Cross-chain operation without delay mechanism",
                     "Implement timelock or delay mechanism for cross-chain operations")>>
              \o When(~(Has(c, "verify_proof") \/ Has(c, "verify_message")),
                      Vuln("Insufficient Cross-Chain Verification", "Critical",
                           "Cross-chain message without proper verification",
                           "Add proper verification for all cross-chain messages"))
         ELSE <<>>
    ELSE <<>>

CrossChainVulnerabilityPattern_check(c) ==
    IF Has(c, "cross_chain") \/ Has(c, "bridge") \/ Has(c, "L1_to_L2")
    THEN LET has_delay == Has(c, "delay") \/ Has(c, "timelock")
             has_verification == Has(c, "verify_proof") \/ Has(c, "verify_message")
         IN  When(~has_delay,
                  Vuln("Missing Cross-Chain Delay", "High",
                       "Cross-chain operation without delay mechanism",
                       "Implement timelock or delay mechanism for cross-chain operations"))
          \o When(~has_verification,
                  Vuln("Insufficient Cross-Chain Verification", "Critical",
                       "Cross-chain message without proper verification",
                       "Add proper verification for all cross-chain messages"))
    ELSE <<>>

\* src/src/audit/rules.rs
UnusedStorageRule_check(c) ==
    When((Has(c, "StorageU64") \/ Has(c, "StorageU256"))
            /\ (~Has(c, ".get()") \/ ~Has(c, ".set(")),
         Vuln("Unused Storage Variable", "Low",
              "Storage variable declared but never accessed",
              "Remove unused storage variables or implement their usage"))

UnsafeCallRule_check(c) ==
    When(Has(c, "unsafe"),
         Vuln("Unsafe Block Usage", "High",
              "Contract contains unsafe blocks that may lead to memory corruption",
              "Review and remove unsafe blocks if possible"))

StoragePatternRule_check(c) ==
    When((Has(c, "get") /\ Has(c, "set"))
            /\ (Has(c, "&mut self") /\ ~Has(c, "#[stylus_sdk::storage]")),
         Vuln("Incorrect Storage Pattern", "Medium",
              "Storage pattern may not be optimal for L2 operations",
              "Use Stylus SDK storage attributes and patterns"))

\* src/src/audit/memory_safety.rs
MemorySafetyRule_check(c) ==
    When(Has(c, "*mut") \/ Has(c, "*const"),
         Vuln("Raw Pointer Usage", "High",
              "Raw pointers can lead to memory corruption and undefined behavior",
              "Use safe alternatives like references or smart pointers"))
 \o When(Has(c, "unsafe") /\ ~Has(c, "unsafe trait"),
         Vuln("Unsafe Block Usage", "Critical",
              "Unsafe blocks can bypass Rust's memory safety guarantees",
              "Remove unsafe blocks or provide strong safety invariants"))
 \o When(Has(c, "Box::into_raw") \/ Has(c, "ManuallyDrop"),
         Vuln("Potential Memory Leak", "High",
              "Memory leaks can cause resource exhaustion and contract failure",
              "Ensure proper cleanup of resources and avoid manual memory management"))
 \o When(Has(c, "MaybeUninit") \/ Has(c, "std::mem::uninitialized"),
         Vuln("Uninitialized Memory Usage", "Critical",
              "Using uninitialized memory leads to undefined behavior",
              "Initialize all memory before use and avoid MaybeUninit when possible"))
 \o When(Has(c, "'static") /\ Has(c, "&mut"),
         Vuln("Suspicious Lifetime Usage", "Medium",
              "Improper lifetime usage can lead to memory safety issues",
              "Review lifetime annotations and ensure they are necessary"))
 \o (IF Has(c, "stylus_sdk")
     THEN When(Has(c, "Vec::with_capacity") /\ Has(c, ">1024"),
               Vuln("Large Memory Allocation", "High",
                    "Large memory allocations can cause contract execution failures",
                    "Use smaller, fixed-size allocations or paginate data"))
       \o When(Has(c, "storage::") /\ ~Has(c, "try_"),
               Vuln("Unchecked Storage Access", "Medium",
                    "Storage operations without error handling may fail silently",
                    "Use try_ variants for storage operations and handle errors explicitly"))
       \o When(Has(c, "external::") /\ ~Has(c, "Result<"),
               Vuln("Unchecked External Calls", "High",
                    "External calls without proper error handling can lead to undefined state",
                    "Always use Result for external calls and handle all error cases"))
     ELSE <<>>)

\* src/src/audit/l2_patterns.rs
L2OptimizationRule_check(c) ==
    When(Has(c, "loop") /\ ~Has(c, "batch"),
         Vuln("Missing Batch Operations", "Medium",
              "Non-batched operations may lead to higher gas costs on L2",
              "Implement batching for loop operations to optimize gas costs"))
 \o When((Has(c, "&[u8]") \/ Has(c, "Vec<u8>"))
            /\ (~Has(c, "compression") /\ ~Has(c, "compact")),
         Vuln("Unoptimized Calldata", "Medium",
              "Uncompressed calldata increases L1 posting costs",
              "Implement calldata compression for large data structures"))
 \o When((Has(c, "StorageMap") \/ Has(c, "StorageVec"))
            /\ (~Has(c, "packed") /\ ~Has(c, "#[repr(packed)]")),
         Vuln("Unpacked Storage", "Low",
              "Inefficient storage slot usage increases gas costs",
              "Pack storage slots efficiently using appropriate data layouts"))
 \o When((Has(c, "emit!") \/ Has(c, "log!")) /\ ~Has(c, "indexed"),
         Vuln("Unoptimized Event Indexing", "Low",
              "Non-indexed events may increase gas costs and reduce searchability",
              "Use indexed parameters for searchable event data"))
 \o (IF Has(c, "stylus_sdk")
     THEN When(~Has(c, "prealloc") /\ (Has(c, "Vec::new") \/ Has(c, "String::new")),
               Vuln("Non-preallocated Collections", "Medium",
                    "Dynamic allocation in Stylus contracts can be expensive",
                    "Use preallocation for collections when size is known"))
       \o When(Has(c, "call!") /\ ~Has(c, "multicall"),
               Vuln("Unoptimized Cross-Contract Calls", "Medium",
                    "Multiple separate calls increase L2 operation costs",
                    "Use multicall pattern for batching cross-contract interactions"))
     ELSE <<>>)

\* src/src/audit/access_control.rs
AccessControlRule_check(c) ==
    (IF Has(c, "pub fn") /\ ~Has(c, "#[access_control")
     THEN LET has_role_check == Has(c, "require!(msg.sender")
                                    \/ Has(c, "ensure!(is_owner")
                                    \/ Has(c, "only_owner")
          IN  When(~has_role_check,
                   Vuln("Missing Access Control", "High",
                        "Functions can be called by unauthorized users",
                        "Implement role-based access control using Stylus SDK"))
     ELSE <<>>)
 \o When((Has(c, "admin") \/ Has(c, "owner"))
            /\ (~Has(c, "initialize") \/ ~Has(c, "constructor")),
         Vuln("Uninitialized Admin Role", "Critical",
              "Contract may lack proper administrative controls",
              "Initialize admin roles in constructor or initialization function"))
 \o (IF Has(c, "role") \/ Has(c, "permission")
     THEN LET has_role_management == Has(c, "grant_role")
                                         \/ Has(c, "revoke_role")
                                         \/ Has(c, "renounce_role")
          IN  When(~has_role_management,
                   Vuln("Incomplete Role Management", "Medium",
                        "Unable to modify roles after deployment",
                        "Implement complete role management functionality"))
     ELSE <<>>)

\* src/src/audit/test_patterns.rs
TestPatternRule_check(c) ==
    When(~Has(c, "#[cfg(test)]"),
         Vuln("Missing Test Module", "Medium",
              "Untested code may contain bugs or vulnerabilities",
              "Add comprehensive test module with unit tests"))
 \o When(Has(c, "#[test]") /\ ~Has(c, "assert"),
         Vuln("Missing Test Assertions", "Medium",
              "Tests without assertions may not verify functionality",
              "Add assertions to verify test outcomes"))
 \o When(~Has(c, "#[test]") \/ ~Has(c, "integration"),
         Vuln("Missing Integration Tests", "Low",
              "Contract interactions may not be fully tested",
              "Add integration tests for contract interactions"))
 \o When(~Has(c, "quickcheck") /\ ~Has(c, "proptest"),
         Vuln("Missing Fuzz Testing", "Low",
              "Edge cases may not be discovered through regular testing",
              "Implement property-based testing using quickcheck or proptest"))
 \o When(Has(c, "#[test]") /\ ~Has(c, "should_panic"),
         Vuln("Missing Error Case Tests", "Medium",
              "Error handling may not be properly tested",
              "Add tests for error cases using #[should_panic]"))

\* The rule types of the crate: the ten of create_default_rules in its order,
\* then the three of rules.rs.
DefaultRuleKinds ==
    << "ReentrancyPattern", "L2SpecificPattern", "StorageSecurityPattern",
       "StateTransitionPattern", "CrossChainVulnerabilityPattern",
       "MemorySafetyRule", "L2OptimizationRule", "AccessControlRule",
       "TestPatternRule", "AIPatternDetector" >>

\* AuditRule::name of each rule type
rule_name(kind) ==
    CASE kind = "ReentrancyPattern" -> "Reentrancy Pattern Checker"
      [] kind = "L2SpecificPattern" -> "L2-Specific Pattern Checker"
      [] kind = "StorageSecurityPattern" -> "Storage Security Pattern Analyzer"
      [] kind = "StateTransitionPattern" -> "State Transition Pattern Analyzer"
      [] kind = "CrossChainVulnerabilityPattern" -> "Cross-Chain Vulnerability Analyzer"
      [] kind = "MemorySafetyRule" -> "Memory Safety Analyzer"
      [] kind = "L2OptimizationRule" -> "L2 Optimization Analyzer"
      [] kind = "AccessControlRule" -> "Access Control Pattern Analyzer"
      [] kind = "TestPatternRule" -> "Testing Pattern Analyzer"
      [] kind = "AIPatternDetector" -> "AI-Powered Security & Pattern Analyzer"
      [] kind = "UnusedStorageRule" -> "Unused Storage Detector"
      [] kind = "UnsafeCallRule" -> "Unsafe Code Detector"
      [] kind = "StoragePatternRule" -> "Storage Pattern Analyzer"

\* AuditRule::check of a rule of the given type whose state (the detector's
\* pattern_cache; nothing for the other rules) is `state`: the vulnerabilities
\* returned and the rule's state afterwards.
rule_check(kind, state, c) ==
    IF kind = "AIPatternDetector"
    THEN LET out == detector_check(state, c)
         IN  [vulnerabilities |-> out.vulnerabilities, state |-> out.cache]
    ELSE [state |-> state,
          vulnerabilities |->
            CASE kind = "ReentrancyPattern" -> ReentrancyPattern_check(c)
              [] kind = "L2SpecificPattern" -> L2SpecificPattern_check(c)
              [] kind = "StorageSecurityPattern" -> StorageSecurityPattern_check(c)
              [] kind = "StateTransitionPattern" -> StateTransitionPattern_check(c)
              [] kind = "CrossChainVulnerabilityPattern" ->
                    CrossChainVulnerabilityPattern_check(c)
              [] kind = "MemorySafetyRule" -> MemorySafetyRule_check(c)
              [] kind = "L2OptimizationRule" -> L2OptimizationRule_check(c)
              [] kind = "AccessControlRule" -> AccessControlRule_check(c)
              [] kind = "TestPatternRule" -> TestPatternRule_check(c)
              [] kind = "UnusedStorageRule" -> UnusedStorageRule_check(c)
              [] kind = "UnsafeCallRule" -> UnsafeCallRule_check(c)
              [] kind = "StoragePatternRule" -> StoragePatternRule_check(c)]

----------------------------------------------------------------------------
(* Rule registry / runner: src/src/audit/mod.rs                               *)
(* A rule object is [id, kind, state]: `id` tells instances apart, `state`    *)
(* is the object's own mutable state, moved with it in and out of the Vec.    *)

Rule(id, kind) == [id |-> id, kind |-> kind, state |-> <<>>]

NoRule == [id |-> 0, kind |-> "none", state |-> <<>>]

Analyzers == {1, 2}
Calls == {1, 2}

\* The analyzers a call may be made on: call 1 on the first, call 2 on either.
Targets(c) == IF c = 1 THEN {1} ELSE Analyzers

\* A registry access that hands out the rule at idx and leaves it in the Vec.
peek(v, idx) == v

\* A removal that drops the last element whatever idx is.
pop_last(v, idx) == SubSeq(v, 1, Len(v) - 1)

\* Vec::swap_remove(idx), idx counted from 1: the last element takes the place
\* of the removed one.
swap_remove(v, idx) ==
    [j \in 1..(Len(v) - 1) |-> IF j = idx THEN v[Len(v)] ELSE v[j]]

\* guard.iter().position(|r| r.name() == rule_name), counted from 1; 0 for None
position(v, name) ==
    IF \E j \in DOMAIN v : rule_name(v[j].kind) = name
    THEN CHOOSE j \in DOMAIN v :
            /\ rule_name(v[j].kind) = name
            /\ \A k \in 1..(j - 1) : rule_name(v[k].kind) # name
    ELSE 0

\* guard.iter().map(|rule| rule.name().to_string()).collect()
rule_names(v) == [j \in DOMAIN v |-> rule_name(v[j].kind)]

IdleCall ==
    [pc |-> "idle", target |-> 0, content |-> <<>>, names |-> <<>>,
     held |-> NoRule, audit |-> EmptyResult, checked |-> <<>>,
     logged |-> <<>>, error |-> "", output |-> NoReport]

\* AuditAnalyzer::add_rule
AddRule(a, rule) ==
    /\ rules' = [rules EXCEPT ![a] = Append(@, rule)]

\* analyze, lines 47-59: read the file, start an empty AuditResult.
Start(c, a) ==
    /\ calls[c].pc = "idle"
    /\ a \in Targets(c)
    /\ calls' = [calls EXCEPT ![c] =
            IF file.readable
            THEN [@ EXCEPT !.pc = "snapshot", !.target = a, !.content = file.text,
                           !.audit = EmptyResult]
            ELSE [@ EXCEPT !.pc = "failed", !.target = a,
                           !.error = "Failed to read file"]]
    /\ UNCHANGED rules

\* A call of analyze outside main.
Analyze(c, a) ==
    /\ Start(c, a)
    /\ UNCHANGED <<file, failing, registered, mainVars, reportVars, detectorVars, ruleVars, parserVars, stylusVars>>

\* analyze, lines 62-70: the names of the registered rules, under the read lock.
Snapshot(c) ==
    /\ calls[c].pc = "snapshot"
    /\ calls' = [calls EXCEPT ![c].pc = "take",
                              ![c].names = rule_names(rules[calls[c].target])]
    /\ UNCHANGED rules
    /\ UNCHANGED <<file, failing, registered, mainVars, reportVars, detectorVars, ruleVars, parserVars, stylusVars>>

\* analyze, lines 73-88: the next name of the loop; under the write lock the
\* first rule of that name is taken out of the registry, or the call fails.
Take(c) ==
    /\ calls[c].pc = "take"
    /\ calls[c].names # <<>>
    /\ LET a == calls[c].target
           rule_name_ == Head(calls[c].names)
           idx == position(rules[a], rule_name_)
       IN  IF idx = 0
           THEN /\ calls' = [calls EXCEPT ![c].pc = "failed",
                                ![c].error = "Rule '" \o rule_name_ \o "' not found"]
                /\ UNCHANGED rules
           ELSE /\ calls' = [calls EXCEPT ![c].pc = "check",
                                          ![c].held = rules[a][idx]]
                /\ rules' = [rules EXCEPT ![a] = swap_remove(@, idx)]
    /\ UNCHANGED <<file, failing, registered, mainVars, reportVars, detectorVars, ruleVars, parserVars, stylusVars>>

\* analyze, lines 90-104: rule.check(&content).await; an Ok value is routed
\* into the buckets, an Err is logged.
CheckRule(c) ==
    /\ calls[c].pc = "check"
    /\ LET rule == calls[c].held
           out == rule_check(rule.kind, rule.state, calls[c].content)
       IN  calls' = [calls EXCEPT ![c] =
              IF rule.id \in failing
              THEN [@ EXCEPT !.pc = "put",
                             !.checked = Append(@, rule.id),
                             !.logged = Append(@, Head(calls[c].names))]
              ELSE [@ EXCEPT !.pc = "put",
                             !.checked = Append(@, rule.id),
                             !.held = [rule EXCEPT !.state = out.state],
                             !.audit = RouteAll(@, out.vulnerabilities)]]
    /\ UNCHANGED rules
    /\ UNCHANGED <<file, failing, registered, mainVars, reportVars, detectorVars, ruleVars, parserVars, stylusVars>>

\* analyze, lines 106-112: the rule is pushed back under the write lock.
Put(c) ==
    /\ calls[c].pc = "put"
    /\ rules' = [rules EXCEPT ![calls[c].target] = Append(@, calls[c].held)]
    /\ calls' = [calls EXCEPT ![c].pc = "take", ![c].held = NoRule,
                              ![c].names = Tail(@)]
    /\ UNCHANGED <<file, failing, registered, mainVars, reportVars, detectorVars, ruleVars, parserVars, stylusVars>>

\* analyze, line 115: the loop is over; the report is returned.
Finish(c) ==
    /\ calls[c].pc = "take"
    /\ calls[c].names = <<>>
    /\ calls' = [calls EXCEPT ![c].pc = "done",
                              ![c].output = generate_report(calls[c].audit)]
    /\ UNCHANGED rules
    /\ UNCHANGED <<file, failing, registered, mainVars, reportVars, detectorVars, ruleVars, parserVars, stylusVars>>

----------------------------------------------------------------------------
(* Runner state machine: analyze calls on analyzers whose rules were          *)
(* registered beforehand.  The second analyzer holds copies of the first      *)
(* analyzer's rules without the failing ones.                                 *)

MaxRules == 4
MaxFailing == 1

\* A file whose text both external grammars reject or accept as flagged.
File(text, solidity, rust) ==
    [readable |-> TRUE, text |-> text, solidity |-> solidity, rust |-> rust]

\* Rule objects that can be registered: two MemorySafetyRule instances (same
\* name()), an UnsafeCallRule and an AIPatternDetector.
RunnerRules ==
    << Rule(1, "MemorySafetyRule"), Rule(2, "UnsafeCallRule"),
       Rule(3, "MemorySafetyRule"), Rule(4, "AIPatternDetector") >>

RunnerFiles ==
    { File(<<Text("pub fn read(p: *mut u8) -> u8 { unsafe { *p } }")>>, FALSE, TRUE) }

\* The registries considered: up to MaxRules of the rule objects, registered
\* in the order of their ids.
Registries ==
    LET picks == UNION { [1..n -> DOMAIN RunnerRules] : n \in 0..MaxRules }
    IN  { [j \in DOMAIN p |-> RunnerRules[p[j]]] :
            p \in { q \in picks : \A i, j \in DOMAIN q : i < j => q[i] < q[j] } }

RuleIds(v) == { v[j].id : j \in DOMAIN v }

\* The rules of v that are not made to fail.
RECURSIVE WithoutFailing(_, _)
WithoutFailing(v, fail) ==
    IF v = <<>> THEN <<>>
    ELSE (IF Head(v).id \in fail THEN <<>> ELSE <<Head(v)>>)
            \o WithoutFailing(Tail(v), fail)

\* main has not been entered.
MainIdle ==
    /\ mpc = "none"
    /\ printed = <<>>
    /\ exit = ""

Init ==
    /\ file \in RunnerFiles
    /\ \E reg \in Registries :
          \E fail \in SUBSET RuleIds(reg) :
              /\ Cardinality(fail) <= MaxFailing
              /\ failing = fail
              /\ rules = [a \in Analyzers |->
                            IF a = 1 THEN reg ELSE WithoutFailing(reg, fail)]
    /\ registered = rules
    /\ calls = [c \in Calls |-> IdleCall]
    /\ MainIdle
    /\ ReportStart
    /\ DetectorStart
    /\ RulesIdle

Next ==
    \/ \E c \in Calls, a \in Analyzers : Analyze(c, a)
    \/ \E c \in Calls : Snapshot(c)
    \/ \E c \in Calls : Take(c)
    \/ \E c \in Calls : CheckRule(c)
    \/ \E c \in Calls : Put(c)
    \/ \E c \in Calls : Finish(c)

Spec == Init /\ [][Next]_vars

----------------------------------------------------------------------------
(* Claims about the rule runner, checked under Spec *)

\* How many times e occurs in the sequence s.
RECURSIVE Count(_, _)
Count(s, e) ==
    IF s = <<>> THEN 0
    ELSE (IF Head(s) = e THEN 1 ELSE 0) + Count(Tail(s), e)

\* Two buckets hold the same vulnerabilities, order aside.
SameBucket(s, t) ==
    /\ \A j \in DOMAIN s : Count(s, s[j]) = Count(t, s[j])
    /\ \A j \in DOMAIN t : Count(s, t[j]) = Count(t, t[j])

SameBuckets(x, y) ==
    /\ SameBucket(x.critical_vulnerabilities, y.critical_vulnerabilities)
    /\ SameBucket(x.high_vulnerabilities, y.high_vulnerabilities)
    /\ SameBucket(x.medium_vulnerabilities, y.medium_vulnerabilities)
    /\ SameBucket(x.low_vulnerabilities, y.low_vulnerabilities)

\* The call c has returned, with Ok or with Err.
Returned(c) == calls[c].pc \in {"done", "failed"}

\* C1: when exactly one registered rule is made to fail and its check returned
\* the error during the run, a run of analyze on that registry (call 1 on analyzer 1, nothing else running on it)
\* returns Ok and its four buckets hold exactly the vulnerabilities of a run on
\* the registry without that rule (call 2 on analyzer 2).
C1_RuleIsolation ==
    ( /\ Cardinality(failing) = 1
      /\ \E id \in failing : Count(calls[1].checked, id) >= 1
      /\ Returned(1) /\ calls[1].target = 1
      /\ Returned(2) /\ calls[2].target = 2 )
    => /\ calls[1].pc = "done"
       /\ calls[2].pc = "done"
       /\ SameBuckets(calls[1].audit, calls[2].audit)

\* C2: when two analyze calls run on the same analyzer, neither fails with
\* "Rule '<name>' not found", and each returns Ok having checked every rule
\* that was registered.
C2_ConcurrentRunsTolerated ==
    ( /\ calls[1].target = 1
      /\ calls[2].target = 1 )
    => \A c \in Calls :
          /\ calls[c].pc # "failed"
          /\ calls[c].pc = "done" =>
                \A id \in RuleIds(registered[1]) : Count(calls[c].checked, id) >= 1

----------------------------------------------------------------------------
(* main, Commands::Audit: the audit command on one file *)

Unreadable == [readable |-> FALSE, text |-> <<>>, solidity |-> FALSE, rust |-> FALSE]

\* Files given to the audit command.  `solidity` and `rust` are the verdicts of
\* solang_parser::parse and syn::parse_file on the text.
MainFiles ==
    { File(<<Text("unsafe { let p: *mut u8 = raw; call(p) ")>>, FALSE, FALSE),
      File(<<Text("pub fn read(p: *mut u8) -> u8 { unsafe { *p } }")>>, FALSE, TRUE),
      File(<<Text("contract C { function f() public { } }")>>, TRUE, FALSE),
      Unreadable }

ParseError == "Failed to parse contract as either Solidity or Rust"

\* ParsedContract::new: Solidity first, then Rust, else the error.
ParsedContract_new(f) ==
    IF f.solidity THEN [ok |-> TRUE, contract_type |-> "Solidity", error |-> ""]
    ELSE IF f.rust THEN [ok |-> TRUE, contract_type |-> "Stylus", error |-> ""]
    ELSE [ok |-> FALSE, contract_type |-> "", error |-> ParseError]

MainInit ==
    /\ file \in MainFiles
    /\ rules = [a \in Analyzers |-> <<>>]
    /\ failing = {}
    /\ registered = rules
    /\ calls = [c \in Calls |-> IdleCall]
    /\ mpc = "start"
    /\ printed = <<>>
    /\ exit = ""
    /\ ReportStart
    /\ DetectorStart
    /\ RulesIdle

\* main, lines 35-38: the banner, AuditAnalyzer::new.
MainStart ==
    /\ mpc = "start"
    /\ printed' = Append(printed, "Performing security audit for file")
    /\ mpc' = "register"
    /\ UNCHANGED <<file, rules, failing, registered, calls, exit, reportVars, detectorVars, ruleVars, parserVars, stylusVars>>

\* main, lines 39-41: one turn of the loop over create_default_rules().
MainAddRule ==
    /\ mpc = "register"
    /\ Len(rules[1]) < Len(DefaultRuleKinds)
    /\ LET k == Len(rules[1]) + 1
       IN  AddRule(1, Rule(k, DefaultRuleKinds[k]))
    /\ UNCHANGED <<file, failing, registered, calls, mainVars, reportVars, detectorVars, ruleVars, parserVars, stylusVars>>

\* main, line 43: analyzer.analyze(&file) is entered.
MainAnalyze ==
    /\ mpc = "register"
    /\ Len(rules[1]) = Len(DefaultRuleKinds)
    /\ Start(1, 1)
    /\ registered' = rules
    /\ mpc' = "analyze"
    /\ UNCHANGED <<file, failing, printed, exit, reportVars, detectorVars, ruleVars, parserVars, stylusVars>>

\* main, lines 43-44: the `?` on analyze's Result, then the report is printed.
MainPrint ==
    /\ mpc = "analyze"
    /\ Returned(1)
    /\ IF calls[1].pc = "done"
       THEN /\ printed' = Append(printed, "audit report")
            /\ mpc' = "gas"
            /\ exit' = exit
       ELSE /\ exit' = calls[1].error
            /\ mpc' = "exit"
            /\ printed' = printed
    /\ UNCHANGED <<file, rules, failing, registered, calls, reportVars, detectorVars, ruleVars, parserVars, stylusVars>>

\* main, line 47: GasAnalyzer.analyze parses the file, then asks the model.
MainGas ==
    /\ mpc = "gas"
    /\ printed' = Append(printed, "Starting Stylus Contract Analysis")
    /\ LET parsed == ParsedContract_new(file)
       IN  IF ~parsed.ok
           THEN /\ exit' = parsed.error
                /\ mpc' = "exit"
           ELSE \E answered \in BOOLEAN :
                  IF answered
                  THEN /\ mpc' = "rest"
                       /\ exit' = exit
                  ELSE /\ exit' = "request failed"
                       /\ mpc' = "exit"
    /\ UNCHANGED <<file, rules, failing, registered, calls, reportVars, detectorVars, ruleVars, parserVars, stylusVars>>

\* main, lines 48-79: the two other analyses and the consolidated section.
MainRest ==
    /\ mpc = "rest"
    /\ \E answered \in BOOLEAN :
          IF answered
          THEN /\ printed' = Append(printed, "Additional Analysis")
               /\ exit' = "Ok"
          ELSE /\ printed' = printed
               /\ exit' = "request failed"
    /\ mpc' = "exit"
    /\ UNCHANGED <<file, rules, failing, registered, calls, reportVars, detectorVars, ruleVars, parserVars, stylusVars>>

MainNext ==
    \/ MainStart
    \/ MainAddRule
    \/ MainAnalyze
    \/ \E c \in Calls : Snapshot(c)
    \/ \E c \in Calls : Take(c)
    \/ \E c \in Calls : CheckRule(c)
    \/ \E c \in Calls : Put(c)
    \/ \E c \in Calls : Finish(c)
    \/ MainPrint
    \/ MainGas
    \/ MainRest

SpecMain == MainInit /\ [][MainNext]_vars

----------------------------------------------------------------------------
(* Claims about the audit command, checked under SpecMain *)

\* C3: for a file whose text matches neither grammar, the rule runner's
\* analyze is never entered, no rule is checked, no audit report is printed,
\* and main returns nothing but the parse error.
C3_ParseBeforeRules ==
    (file.readable /\ ~ParsedContract_new(file).ok)
    => /\ calls[1].pc = "idle"
       /\ calls[1].checked = <<>>
       /\ Count(printed, "audit report") = 0
       /\ exit \in {"", ParseError}

----------------------------------------------------------------------------
(* Further claims about the aggregator, checked under SpecReport *)

\* C11: for every AuditResult, the empty one included, the risk score is at
\* least 0 and at most 10 (0 and 30 in thirds).
C11_ScoreBounds ==
    rpc = "reported" =>
        /\ report.risk_score >= 0
        /\ report.risk_score <= 10 * ScoreDivisor

\* A summarised result of four critical findings: the weighted sum 40/3 is
\* above 10 and the score is 10.
C11_Witness ==
    /\ rpc = "reported"
    /\ Len(result.critical_vulnerabilities) = 4
    /\ calculate_risk_score_unclamped(result) > 10 * ScoreDivisor
    /\ report.risk_score = 10 * ScoreDivisor

----------------------------------------------------------------------------
(* Two analyzers, each holding a freshly constructed default rule set, and    *)
(* one analyze call on each of them, on the same file.                        *)

\* create_default_rules(): ten fresh rule objects, in this order.
create_default_rules ==
    [k \in DOMAIN DefaultRuleKinds |-> Rule(k, DefaultRuleKinds[k])]

DefaultFiles ==
    { File(<<Text("pub fn read(p: *mut u8) -> u8 { unsafe { *p } }")>>, FALSE, TRUE),
      File(<<Text("pub fn relay(&mut self) { cross_chain::send(self.owner) }")>>, FALSE, TRUE),
      File(<<Text("contract C { function f() external { x.call(block.timestamp); } }")>>,
           TRUE, FALSE),
      File(<<>>, FALSE, TRUE) }

\* The registry after the loop of analyze has taken out and pushed back the
\* first rule of each of the names, one call running alone.
RECURSIVE Cycle(_, _)
Cycle(v, names) ==
    IF names = <<>> THEN v
    ELSE LET idx == position(v, Head(names))
         IN  Cycle(Append(swap_remove(v, idx), v[idx]), Tail(names))

\* The second analyzer holds a rule set that has served one run already.
UsedRules(a) ==
    IF a = 1 THEN create_default_rules
    ELSE Cycle(create_default_rules, rule_names(create_default_rules))

\* The rule set registered on analyzer a: main, lines 38-41.
FreshRules(a) == create_default_rules

DefaultInit ==
    /\ file \in DefaultFiles
    /\ rules = [a \in Analyzers |-> FreshRules(a)]
    /\ failing = {}
    /\ registered = rules
    /\ calls = [c \in Calls |-> IdleCall]
    /\ MainIdle
    /\ ReportStart
    /\ DetectorStart
    /\ RulesIdle

\* The call c on the analyzer constructed for it.
AnalyzeFresh(c) == Analyze(c, c)

DefaultNext ==
    \/ \E c \in Calls : AnalyzeFresh(c)
    \/ \E c \in Calls : Snapshot(c)
    \/ \E c \in Calls : Take(c)
    \/ \E c \in Calls : CheckRule(c)
    \/ \E c \in Calls : Put(c)
    \/ \E c \in Calls : Finish(c)

SpecDefault == DefaultInit /\ [][DefaultNext]_vars

----------------------------------------------------------------------------
(* Claims about runs of the default rule set, checked under SpecDefault *)

----------------------------------------------------------------------------
(* Two analyzers on which the same fresh rule objects were registered in      *)
(* different orders, and one analyze call on each of them, on the same file.  *)

\* Every order of the elements of a sequence.
Orderings(v) ==
    { [j \in DOMAIN v |-> v[p[j]]] :
        p \in { q \in [DOMAIN v -> DOMAIN v] :
                    \A i, j \in DOMAIN v : i # j => q[i] # q[j] } }

OrderInit ==
    /\ file \in RunnerFiles
    /\ \E reg \in Registries :
          \E fail \in SUBSET RuleIds(reg) :
              /\ Cardinality(fail) <= MaxFailing
              /\ failing = fail
              /\ \E other \in Orderings(reg) :
                    rules = [a \in Analyzers |-> IF a = 1 THEN reg ELSE other]
    /\ registered = rules
    /\ calls = [c \in Calls |-> IdleCall]
    /\ MainIdle
    /\ ReportStart
    /\ DetectorStart
    /\ RulesIdle

SpecOrder == OrderInit /\ [][DefaultNext]_vars

----------------------------------------------------------------------------
(* Claims about registration order, checked under SpecOrder *)

\* C13: whatever the order in which a fresh set of rules is registered, a run
\* of analyze returns Ok with the same multiset of vulnerabilities in each
\* severity bucket.
C13_ReorderingInvariance ==
    (Returned(1) /\ Returned(2))
    => /\ calls[1].pc = "done"
       /\ calls[2].pc = "done"
       /\ SameBuckets(calls[1].audit, calls[2].audit)

\* The same, for rule sets in which no two rules have the same name.
C13_DistinctNames ==
    (\A i, j \in DOMAIN registered[1] :
        i # j => rule_name(registered[1][i].kind) # rule_name(registered[1][j].kind))
    => C13_ReorderingInvariance

----------------------------------------------------------------------------
(* Claims about the buckets during a run, checked under SpecDefault *)

\* The bucket of an AuditResult for a severity.
Bucket(res, sev) ==
    CASE sev = "Critical" -> res.critical_vulnerabilities
      [] sev = "High" -> res.high_vulnerabilities
      [] sev = "Medium" -> res.medium_vulnerabilities
      [] sev = "Low" -> res.low_vulnerabilities

\* Every vulnerability of every bucket of the call's AuditResult has the
\* bucket's severity.
BucketsMatchSeverity(c) ==
    \A sev \in Severities :
        \A i \in DOMAIN Bucket(calls[c].audit, sev) :
            Bucket(calls[c].audit, sev)[i].severity = sev

\* A step in which the check of the rule held by call c returned Ok stores
\* each returned vulnerability, as often as it was returned, in one bucket.
ChecksStored(c) ==
    (calls[c].pc = "check" /\ calls'[c].pc = "put" /\ calls[c].held.id \notin failing)
    => LET out == rule_check(calls[c].held.kind, calls[c].held.state,
                             calls[c].content).vulnerabilities
       IN  \A i \in DOMAIN out :
              \E sev \in Severities :
                 /\ Count(Bucket(calls'[c].audit, sev), out[i])
                       = Count(Bucket(calls[c].audit, sev), out[i]) + Count(out, out[i])
                 /\ \A other \in Severities \ {sev} :
                       Count(Bucket(calls'[c].audit, other), out[i])
                          = Count(Bucket(calls[c].audit, other), out[i])

\* C14: at every point of an analyze run every vulnerability stored in the
\* critical, high, medium or low bucket has exactly that severity, and every
\* vulnerability returned by a successful check is stored in exactly one bucket.
C14_SeverityRouting ==
    /\ [](\A c \in Calls : BucketsMatchSeverity(c))
    /\ [][\A c \in Calls : ChecksStored(c)]_vars

\* A finished run whose four buckets are all non-empty.
C14_Witness ==
    \E c \in Calls :
        /\ calls[c].pc = "done"
        /\ \A sev \in Severities : Bucket(calls[c].audit, sev) # <<>>

----------------------------------------------------------------------------
(* Claims about repeated aggregation, checked under SpecReport *)

\* No vulnerability of a bucket repeats the (name, recommendation) of an
\* earlier one of the same bucket.
DeduplicatedBucket(bucket) ==
    \A i, j \in DOMAIN bucket : i < j => ~SameFinding(bucket[i], bucket[j])

Deduplicated(res) ==
    \A sev \in Severities : DeduplicatedBucket(Bucket(res, sev))

\* C15: aggregating the summarised AuditResult once more gives the same
\* listing and the same action items, and when its buckets are already
\* deduplicated the listing is the buckets, unchanged.
C15_AggregationIdempotence ==
    rpc = "reported" =>
        /\ generate_report(result) = report
        /\ Deduplicated(result) =>
              /\ report.critical = result.critical_vulnerabilities
              /\ report.high = result.high_vulnerabilities
              /\ report.medium = result.medium_vulnerabilities
              /\ report.low = result.low_vulnerabilities

----------------------------------------------------------------------------
(* Further claims about the weighted detector, checked under SpecDetector *)

\* C16: every (pattern, confidence) pair the detector produces after
\* weighting has a confidence in [0, 1] (0 to 1000 thousandths).
C16_ConfidenceRange ==
    \A n \in DOMAIN checks :
        \A i \in DOMAIN checks[n].patterns :
            /\ checks[n].patterns[i][2] >= 0
            /\ checks[n].patterns[i][2] <= FullConfidence

\* A scoring pass that produced a pattern with confidence 1 and one below 1.
C16_Witness ==
    \E n \in DOMAIN checks :
        /\ ~checks[n].hit
        /\ \E i \in DOMAIN checks[n].patterns : checks[n].patterns[i][2] = FullConfidence
        /\ \E i \in DOMAIN checks[n].patterns : checks[n].patterns[i][2] < FullConfidence

\* C17: a pattern whose final confidence is at or below 0.80, exactly 0.80
\* included, contributes no Vulnerability: the Vulnerability its name
\* translates to is not in the result of check.
C17_ThresholdDiscard ==
    \A n \in DOMAIN checks :
        \A i \in DOMAIN checks[n].patterns :
            checks[n].patterns[i][2] <= 800 =>
                LET vuln == pattern_vulnerability(checks[n].patterns[i][1])
                IN  \A k \in DOMAIN vuln : Count(checks[n].vulnerabilities, vuln[k]) = 0

\* A check whose scoring pass gave "DoS Risk" exactly 0.80 (base confidence,
\* no increment) next to a pattern above the threshold, which was translated.
C17_Witness ==
    \E n \in DOMAIN checks :
        /\ \E i \in DOMAIN checks[n].patterns :
              /\ checks[n].patterns[i] = <<"DoS Risk", 800>>
              /\ pattern_vulnerability("DoS Risk") # <<>>
              /\ Count(checks[n].vulnerabilities, pattern_vulnerability("DoS Risk")[1]) = 0
        /\ checks[n].vulnerabilities # <<>>

----------------------------------------------------------------------------
(* Single rules on a source text: one rule object is handed the text, which   *)
(* can be edited in between.                                                  *)

MaxOutcomes == 3

\* The rules the scenarios are about.
ScenarioRuleKinds ==
    {"MemorySafetyRule", "AccessControlRule", "CrossChainVulnerabilityPattern"}

\* The owner check added to a source.
OwnerCheck == " require!(msg.sender == self.owner);"

\* Texts handed to the rules.
ScenarioSources ==
    { <<Text("fn read(p: u8) -> u8 { unsafe { load(p) } }")>>,
      <<Text("unsafe trait Raw {} fn read(p: u8) -> u8 { unsafe { load(p) } }")>>,
      <<Text("unsafe trait Raw {}")>>,
      <<Text("fn note() { log(\"unsafe\") }")>>,
      <<Text("pub fn mint(&mut self, amount: u64) { self.total += amount; }")>>,
      <<Text("#[access_control] pub fn mint(&mut self, amount: u64) { self.total += amount; }")>>,
      <<Text("contract Token { function mint(uint amount) external { total += amount; } }")>>,
      <<Text("fn relay(m: Msg) { cross_chain::send(m) }")>>,
      <<Text("fn relay(m: Msg) { timelock(m); cross_chain::send(m) }")>>,
      <<Text("fn relay(m: Msg) { verify_proof(m); cross_chain::send(m) }")>>,
      <<Text("fn relay(m: Msg) { delay(m); verify_message(m); cross_chain::send(m) }")>> }

\* The text with an ASCII piece appended.
AppendText(content, s) ==
    IF content # <<>> /\ ~content[Len(content)].wide
    THEN [content EXCEPT ![Len(content)] = Text(@.text \o s)]
    ELSE Append(content, Text(s))

ScenarioInit ==
    /\ source \in ScenarioSources
    /\ outcomes = <<>>
    /\ ReportStart
    /\ DetectorStart
    /\ RunnerIdle
    /\ ParserIdle
    /\ StylusIdle

\* check(source) on a fresh rule of the given type.
CheckSource(kind) ==
    /\ Len(outcomes) < MaxOutcomes
    /\ outcomes' = Append(outcomes,
          [kind |-> kind, content |-> source,
           vulnerabilities |-> rule_check(kind, <<>>, source).vulnerabilities])
    /\ UNCHANGED <<source, reportVars, detectorVars, runnerVars, mainVars, parserVars, stylusVars>>

\* The source is edited: an owner check is added to it.
AddOwnerCheck ==
    /\ ~Has(source, OwnerCheck)
    /\ source' = AppendText(source, OwnerCheck)
    /\ UNCHANGED <<outcomes, reportVars, detectorVars, runnerVars, mainVars, parserVars, stylusVars>>

ScenarioNext ==
    \/ \E kind \in ScenarioRuleKinds : CheckSource(kind)
    \/ AddOwnerCheck

SpecScenario == ScenarioInit /\ [][ScenarioNext]_vars

----------------------------------------------------------------------------
(* Claims about single rules, checked under SpecScenario *)

\* The string k starts at position p of the string s.
OccursAt(s, k, p) ==
    /\ p + Len(k) - 1 <= Len(s)
    /\ SubSeq(s, p, p + Len(k) - 1) = k

\* The number of double quotes among the first n characters of s.
QuotesIn(s, n) == Cardinality({ i \in 1..n : CharAt(s, i) = "\"" })

\* The number of double quotes in the runs before run r of the content.
RECURSIVE QuotesBeforeRun(_, _)
QuotesBeforeRun(content, r) ==
    IF r <= 1 THEN 0
    ELSE QuotesBeforeRun(content, r - 1)
            + (IF content[r - 1].wide THEN 0
               ELSE QuotesIn(content[r - 1].text, Len(content[r - 1].text)))

\* Position p of run r lies inside a string literal: an odd number of double
\* quotes precedes it.
InStringLiteral(content, r, p) ==
    (QuotesBeforeRun(content, r) + QuotesIn(content[r].text, p - 1)) % 2 = 1

\* "unsafe" occurs somewhere outside a string literal and not as the start of
\* "unsafe trait".
UnsafeOutsideLiteral(content) ==
    \E r \in DOMAIN content :
        /\ ~content[r].wide
        /\ \E p \in 1..Len(content[r].text) :
              /\ OccursAt(content[r].text, "unsafe", p)
              /\ ~OccursAt(content[r].text, "unsafe trait", p)
              /\ ~InStringLiteral(content, r, p)

\* The vulnerabilities hold one of the given name and severity.
Emits(vulns, name, sev) ==
    \E i \in DOMAIN vulns : vulns[i].name = name /\ vulns[i].severity = sev

\* C18: for every source in which "unsafe" occurs outside a string literal and
\* not as part of "unsafe trait", the check of the memory-safety rule emits a
\* Critical "Unsafe Block Usage".
C18_ScenarioA ==
    \A n \in DOMAIN outcomes :
        (outcomes[n].kind = "MemorySafetyRule" /\ UnsafeOutsideLiteral(outcomes[n].content))
            => Emits(outcomes[n].vulnerabilities, "Unsafe Block Usage", "Critical")

\* The same for sources that hold no "unsafe trait" at all.
C18_NoUnsafeTrait ==
    \A n \in DOMAIN outcomes :
        (/\ outcomes[n].kind = "MemorySafetyRule"
         /\ UnsafeOutsideLiteral(outcomes[n].content)
         /\ ~Has(outcomes[n].content, "unsafe trait"))
            => Emits(outcomes[n].vulnerabilities, "Unsafe Block Usage", "Critical")

\* The source declares a public or external function: a Rust `pub fn`, or a
\* Solidity function of visibility public or external.
HasPublicFunction(content) ==
    \/ Has(content, "pub fn")
    \/ /\ Has(content, "function ")
       /\ Has(content, " public") \/ Has(content, " external")

\* The source carries an access-control marker.
HasAccessMarker(content) ==
    Has(content, "#[access_control") \/ Has(content, "only_owner")
        \/ Has(content, "#[authorize")

\* The source carries a msg.sender-style owner check.
HasOwnerCheck(content) ==
    Has(content, "msg.sender") \/ Has(content, "is_owner")

\* A public or external function, no marker, no owner check.
Unguarded(content) ==
    HasPublicFunction(content) /\ ~HasAccessMarker(content) /\ ~HasOwnerCheck(content)

\* The names of the vulnerabilities.
Names(vulns) == { vulns[i].name : i \in DOMAIN vulns }

\* C19: for every source with a public or external function, no
\* access-control marker and no msg.sender-style owner check, the
\* access-control rule emits a High "Missing Access Control"; on the same
\* source with an owner check added it emits no "Missing Access Control".
C19_ScenarioB ==
    \A n \in DOMAIN outcomes :
        (outcomes[n].kind = "AccessControlRule" /\ Unguarded(outcomes[n].content))
        => /\ Emits(outcomes[n].vulnerabilities, "Missing Access Control", "High")
           /\ \A m \in DOMAIN outcomes :
                 (/\ outcomes[m].kind = "AccessControlRule"
                  /\ outcomes[m].content = AppendText(outcomes[n].content, OwnerCheck))
                 => "Missing Access Control" \notin Names(outcomes[m].vulnerabilities)

\* The same for sources whose public function is a Rust `pub fn`.
C19_PubFn ==
    \A n \in DOMAIN outcomes :
        (/\ outcomes[n].kind = "AccessControlRule"
         /\ Unguarded(outcomes[n].content)
         /\ Has(outcomes[n].content, "pub fn"))
        => /\ Emits(outcomes[n].vulnerabilities, "Missing Access Control", "High")
           /\ \A m \in DOMAIN outcomes :
                 (/\ outcomes[m].kind = "AccessControlRule"
                  /\ outcomes[m].content = AppendText(outcomes[n].content, OwnerCheck))
                 => "Missing Access Control" \notin Names(outcomes[m].vulnerabilities)

\* A `pub fn` source checked before and after the owner check was added.
C19_PubFnWitness ==
    \E n, m \in DOMAIN outcomes :
        /\ outcomes[n].kind = "AccessControlRule"
        /\ outcomes[m].kind = "AccessControlRule"
        /\ Unguarded(outcomes[n].content)
        /\ Has(outcomes[n].content, "pub fn")
        /\ outcomes[m].content = AppendText(outcomes[n].content, OwnerCheck)
        /\ Emits(outcomes[n].vulnerabilities, "Missing Access Control", "High")
        /\ "Missing Access Control" \notin Names(outcomes[m].vulnerabilities)

\* C20: for a source containing "cross_chain", the cross-chain rule emits High
\* "Missing Cross-Chain Delay" exactly when neither "delay" nor "timelock" is
\* present, and Critical "Insufficient Cross-Chain Verification" exactly when
\* neither "verify_proof" nor "verify_message" is present; each of the two
\* depends on its own condition only.
C20_ScenarioC ==
    \A n \in DOMAIN outcomes :
        (/\ outcomes[n].kind = "CrossChainVulnerabilityPattern"
         /\ Has(outcomes[n].content, "cross_chain"))
        => /\ Emits(outcomes[n].vulnerabilities, "Missing Cross-Chain Delay", "High")
                <=> (~Has(outcomes[n].content, "delay")
                        /\ ~Has(outcomes[n].content, "timelock"))
           /\ Emits(outcomes[n].vulnerabilities,
                    "Insufficient Cross-Chain Verification", "Critical")
                <=> (~Has(outcomes[n].content, "verify_proof")
                        /\ ~Has(outcomes[n].content, "verify_message"))
           /\ Names(outcomes[n].vulnerabilities)
                \subseteq {"Missing Cross-Chain Delay", "Insufficient Cross-Chain Verification"}

\* One check call on a source containing "cross_chain", with none of the four
\* mitigating words, returned both findings.
C20_Witness ==
    \E n \in DOMAIN outcomes :
        /\ outcomes[n].kind = "CrossChainVulnerabilityPattern"
        /\ Has(outcomes[n].content, "cross_chain")
        /\ Len(outcomes[n].vulnerabilities) = 2
        /\ Emits(outcomes[n].vulnerabilities, "Missing Cross-Chain Delay", "High")
        /\ Emits(outcomes[n].vulnerabilities,
                 "Insufficient Cross-Chain Verification", "Critical")

----------------------------------------------------------------------------
(* Claims about one analyze run on its own analyzer, checked under SpecOrder *)

\* C24: when a run of analyze that had its analyzer to itself has returned Ok,
\* every rule object that was in the registry when the run started has had
\* check called exactly once, rule objects with the same name() included.
C24_ExactlyOnce ==
    \A c \in Calls :
        calls[c].pc = "done"
        => \A id \in RuleIds(registered[c]) : Count(calls[c].checked, id) = 1

\* The same, for registries in which no two rules have the same name.
C24_DistinctNames ==
    \A c \in Calls :
        (\A i, j \in DOMAIN registered[c] :
            i # j => rule_name(registered[c][i].kind) # rule_name(registered[c][j].kind))
        => (calls[c].pc = "done"
            => \A id \in RuleIds(registered[c]) : Count(calls[c].checked, id) = 1)

\* A run over three or more rules of distinct names has returned.
C24_DistinctNamesWitness ==
    \E c \in Calls :
        /\ calls[c].pc = "done"
        /\ Len(registered[c]) >= 3
        /\ \A i, j \in DOMAIN registered[c] :
            i # j => rule_name(registered[c][i].kind) # rule_name(registered[c][j].kind)

----------------------------------------------------------------------------
(* Claims about concurrent analyze calls on one analyzer, checked under Spec *)

\* The call c holds a rule it took out of the registry.
Holding(c) == calls[c].pc \in {"check", "put"}

\* C25: whenever two analyze calls on the same analyzer each hold a rule, they
\* hold different rule objects; no rule object, the weighted detector
\* included, is inside check for two calls at once.
C25_ExclusiveOwnership ==
    \A c, d \in Calls :
        (/\ c # d
         /\ calls[c].target = calls[d].target
         /\ Holding(c) /\ Holding(d))
        => calls[c].held.id # calls[d].held.id

\* Two calls on the same analyzer are inside check at the same time, one of
\* them with the weighted detector.
C25_Witness ==
    /\ calls[1].target = 1 /\ calls[2].target = 1
    /\ calls[1].pc = "check" /\ calls[2].pc = "check"
    /\ calls[1].held.id # calls[2].held.id
    /\ \E c \in Calls : calls[c].held.kind = "AIPatternDetector"

----------------------------------------------------------------------------
(* Registry preservation, checked under SpecOrder (each call is alone on its  *)
(* analyzer)                                                                  *)

\* The ids of the rule objects of a registry, in its order.
rule_ids(v) == [j \in DOMAIN v |-> v[j].id]

\* C26: during a run that has its analyzer to itself at most one rule is
\* absent from the registry, the absent rule is the one the run holds, and
\* when the run has returned the registry holds exactly the rule objects it
\* held when the run started, whether their checks returned Ok or Err.
C26_RegistryPreservation ==
    \A c \in Calls :
        /\ Len(rules[c]) >= Len(registered[c]) - 1
        /\ Holding(c)
            => SameBucket(rule_ids(Append(rules[c], calls[c].held)),
                          rule_ids(registered[c]))
        /\ ~Holding(c)
            => SameBucket(rule_ids(rules[c]), rule_ids(registered[c]))

\* A run over three or more rules, one of whose checks returned Err, has
\* returned.
C26_Witness ==
    \E c \in Calls :
        /\ calls[c].pc = "done"
        /\ Len(registered[c]) >= 3
        /\ calls[c].logged # <<>>
        /\ SameBucket(rule_ids(rules[c]), rule_ids(registered[c]))

----------------------------------------------------------------------------
(* Two consecutive analyze runs on one analyzer: the second call is made      *)
(* when the first has returned.                                               *)

RepeatInit ==
    /\ file \in RunnerFiles
    /\ \E reg \in Registries :
          \E fail \in SUBSET RuleIds(reg) :
              /\ Cardinality(fail) <= MaxFailing
              /\ failing = fail
              /\ rules = [a \in Analyzers |-> reg]
    /\ registered = rules
    /\ calls = [c \in Calls |-> IdleCall]
    /\ MainIdle
    /\ ReportStart
    /\ DetectorStart
    /\ RulesIdle

\* The first analyze call on the analyzer.
FirstRun == Analyze(1, 1)

\* The second analyze call on the same analyzer, after the first returned.
SecondRun ==
    /\ Returned(1)
    /\ Analyze(2, 1)

RepeatNext ==
    \/ FirstRun
    \/ SecondRun
    \/ \E c \in Calls : Snapshot(c)
    \/ \E c \in Calls : Take(c)
    \/ \E c \in Calls : CheckRule(c)
    \/ \E c \in Calls : Put(c)
    \/ \E c \in Calls : Finish(c)

SpecRepeat == RepeatInit /\ [][RepeatNext]_vars

\* C27: two consecutive runs on one analyzer holding three or more rules, on
\* the same content, call check on the rules in the same order and fill the
\* buckets with the same sequences, and the first run leaves the registry in
\* the order in which it found it.
C27_RepeatedRuns ==
    (/\ Len(registered[1]) >= 3
     /\ calls[1].pc = "done")
    => /\ calls[2].pc = "idle" => rule_ids(rules[1]) = rule_ids(registered[1])
       /\ calls[2].pc = "done"
            => /\ calls[1].checked = calls[2].checked
               /\ calls[1].audit = calls[2].audit

\* The same, for an analyzer holding at most two rules.
C27_UpToTwoRules ==
    (/\ Len(registered[1]) <= 2
     /\ calls[1].pc = "done")
    => /\ calls[2].pc = "idle" => rule_ids(rules[1]) = rule_ids(registered[1])
       /\ calls[2].pc = "done"
            => /\ calls[1].checked = calls[2].checked
               /\ calls[1].audit = calls[2].audit

\* Both runs on an analyzer of two rules have returned.
C27_UpToTwoRulesWitness ==
    /\ Len(registered[1]) = 2
    /\ calls[1].pc = "done"
    /\ calls[2].pc = "done"
    /\ calls[1].checked = calls[2].checked
    /\ Len(calls[1].checked) = 2

----------------------------------------------------------------------------
(* Dedup key of the report, checked under SpecReport *)

\* Every vulnerability the report lists, over its four sections.
Listed(rep) == rep.critical \o rep.high \o rep.medium \o rep.low

\* C28: the report drops a vulnerability only as a duplicate of a listed one
\* with the same name and the same recommendation: every (name,
\* recommendation) pair of the AuditResult is listed in the report, also when
\* a name or a recommendation contains ':'.
C28_DedupKeyInjective ==
    rpc = "reported" =>
        \A v \in AllVulns(result) : ListedIn(Listed(report), v)

\* The same, for an AuditResult none of whose names or recommendations
\* contains ':'.
C28_NoColon ==
    (\A v \in AllVulns(result) :
        ~Contains(v.name, ":") /\ ~Contains(v.recommendation, ":"))
    => C28_DedupKeyInjective

\* A report over duplicates, none with a ':', was generated.
C28_NoColonWitness ==
    /\ rpc = "reported"
    /\ \A v \in AllVulns(result) :
        ~Contains(v.name, ":") /\ ~Contains(v.recommendation, ":")
    /\ Len(Listed(report)) >= 2
    /\ Len(Listed(report)) < total_issues(result)

----------------------------------------------------------------------------
(* Contract parser: src/src/parser/mod.rs                                     *)
(* The two grammars (solang_parser::parse, syn::parse_file) are libraries.    *)
(* An input is the text together with what each grammar reads in it: None     *)
(* when it rejects the text, else the syntax tree, as far as the parser       *)
(* module looks at it.  Types and locations of the trees are left out; a      *)
(* function body is given by its rendering (format!("{:?}") for Solidity,     *)
(* to_token_stream().to_string() for Rust).                                   *)

\* solang_parser::pt::ContractPart::FunctionDefinition.  name is None for a
\* constructor, fallback or receive function; visibility is the visibility
\* attribute written in the source, "" when there is none; params holds the
\* Option<Identifier> name of each parameter.
FunctionDefinition(name, visibility, params, body) ==
    [part |-> "FunctionDefinition", name |-> name, visibility |-> visibility,
     params |-> params, body |-> body, fields |-> <<>>]

\* solang_parser::pt::ContractPart::StructDefinition; fields holds the
\* Option<Identifier> name of each field.
StructDefinition(name, fields) ==
    [part |-> "StructDefinition", name |-> name, visibility |-> "",
     params |-> <<>>, body |-> None, fields |-> fields]

\* Any other ContractPart (a state variable, an event, ...).
OtherPart ==
    [part |-> "VariableDefinition", name |-> Some("total"), visibility |-> "public",
     params |-> <<>>, body |-> None, fields |-> <<>>]

\* solang_parser::pt::SourceUnitPart: a contract definition with its parts,
\* or something else at file level (here: a struct definition).
ContractDefinition(parts) == [unit |-> "ContractDefinition", parts |-> parts]
FileLevel(part) == [unit |-> part.part, parts |-> <<part>>]

\* syn::Item::Fn, syn::Item::Struct and any other item.  A struct field is
\* [vis, ident, ty]: ident is None for the fields of a tuple struct.
ItemFn(name, public, body) ==
    [item |-> "Fn", name |-> name, public |-> public, body |-> body, fields |-> <<>>]
ItemStruct(name, fields) ==
    [item |-> "Struct", name |-> name, public |-> TRUE, body |-> "", fields |-> fields]
ItemOther ==
    [item |-> "Use", name |-> "", public |-> FALSE, body |-> "", fields |-> <<>>]

Field(vis, ident, ty) == [vis |-> vis, ident |-> ident, ty |-> ty]

\* The text with the readings of the two grammars.
Input(text, solidity, rust) == [text |-> text, solidity |-> solidity, rust |-> rust]

\* struct Function, struct Structure, struct ParsedContract
Function(name, visibility, params, body) ==
    [name |-> name, visibility |-> visibility, params |-> params, body |-> body]
Structure(name, fields) == [name |-> name, fields |-> fields]

NotParsed ==
    [state |-> "none", contract_type |-> "", functions |-> <<>>, structs |-> <<>>,
     source |-> <<>>, error |-> ""]

\* The values carried by the Some elements of a sequence of Options, in order.
RECURSIVE Somes(_)
Somes(opts) ==
    IF opts = <<>> THEN <<>>
    ELSE (IF Head(opts).some THEN <<Head(opts).val>> ELSE <<>>) \o Somes(Tail(opts))

\* A visibility reading that returns what the source declares; a function
\* without a visibility attribute is internal.
declared_visibility(func) ==
    IF func.visibility = "" THEN "internal" ELSE func.visibility

\* get_visibility_string: the argument is not looked at.
get_visibility_string(func) == "internal"

\* from_solidity, the match on one part of a contract: what it pushes to
\* `functions` and to `structs`.
RECURSIVE SolidityParts(_, _)
SolidityParts(parts, acc) ==
    IF parts = <<>> THEN acc
    ELSE LET p == Head(parts)
             next ==
                IF p.part = "FunctionDefinition" /\ p.name.some
                THEN [acc EXCEPT !.functions = Append(@,
                        Function(p.name.val, get_visibility_string(p),
                                 Somes(p.params),
                                 IF p.body.some THEN p.body.val ELSE ""))]
                ELSE IF p.part = "StructDefinition" /\ p.name.some
                THEN [acc EXCEPT !.structs = Append(@,
                        Structure(p.name.val, Somes(p.fields)))]
                ELSE acc
         IN  SolidityParts(Tail(parts), next)

\* from_solidity, the loop over the source unit: only contract definitions
\* are looked into.
RECURSIVE SolidityUnits(_, _)
SolidityUnits(units, acc) ==
    IF units = <<>> THEN acc
    ELSE SolidityUnits(Tail(units),
            IF Head(units).unit = "ContractDefinition"
            THEN SolidityParts(Head(units).parts, acc)
            ELSE acc)

from_solidity(source_unit, content) ==
    LET got == SolidityUnits(source_unit, [functions |-> <<>>, structs |-> <<>>])
    IN  [state |-> "ok", contract_type |-> "Solidity", functions |-> got.functions,
         structs |-> got.structs, source |-> content, error |-> ""]

\* from_rust, the loop over the items of the file.
RECURSIVE RustItems(_, _)
RustItems(items, acc) ==
    IF items = <<>> THEN acc
    ELSE LET it == Head(items)
             next ==
                IF it.item = "Fn"
                THEN [acc EXCEPT !.functions = Append(@,
                        Function(it.name, IF it.public THEN "public" ELSE "private",
                                 <<>>, it.body))]
                ELSE IF it.item = "Struct"
                THEN [acc EXCEPT !.structs = Append(@,
                        Structure(it.name,
                                  Somes([j \in DOMAIN it.fields |-> it.fields[j].ident])))]
                ELSE acc
         IN  RustItems(Tail(items), next)

from_rust(rust_file, content) ==
    LET got == RustItems(rust_file, [functions |-> <<>>, structs |-> <<>>])
    IN  [state |-> "ok", contract_type |-> "Stylus", functions |-> got.functions,
         structs |-> got.structs, source |-> content, error |-> ""]

\* A builder that tries the Rust grammar first.
new_rust_first(in) ==
    IF in.rust.some THEN from_rust(in.rust.val, in.text)
    ELSE IF in.solidity.some THEN from_solidity(in.solidity.val, in.text)
    ELSE [NotParsed EXCEPT !.state = "err", !.error = ParseError]

\* ParsedContract::new: Solidity first; Rust only if Solidity failed.
new(in) ==
    IF in.solidity.some THEN from_solidity(in.solidity.val, in.text)
    ELSE IF in.rust.some THEN from_rust(in.rust.val, in.text)
    ELSE [NotParsed EXCEPT !.state = "err", !.error = ParseError]

\* The Solidity arm of analyze_patterns for one function, lines 195-214.
FunctionPatterns(function) ==
    (IF function.visibility = "public" \/ function.visibility = "external"
     THEN <<"Public function '" \o function.name \o "' - ensure proper access control">>
     ELSE <<>>)
    \o (IF Contains(function.body, "storage")
        THEN <<"Storage operation in function '" \o function.name
                \o "' - consider optimization">>
        ELSE <<>>)
    \o (IF Contains(function.body, "for") \/ Contains(function.body, "while")
        THEN <<"Loop in function '" \o function.name \o "' may have high gas cost">>
        ELSE <<>>)
    \o (IF Len(function.params) > 4
        THEN <<"Function '" \o function.name \o "' has many parameters ("
                \o ToString(Len(function.params)) \o ") - consider grouping them">>
        ELSE <<>>)

\* A struct check that reports a structure of five fields too.
StructPatternsFromFive(structure) ==
    IF Len(structure.fields) >= 5
    THEN <<"Struct '" \o structure.name \o "' has many fields ("
            \o ToString(Len(structure.fields)) \o ") - consider splitting">>
    ELSE <<>>

\* The Solidity arm for one structure, lines 219-222.
StructPatterns(structure) ==
    IF Len(structure.fields) > 5
    THEN <<"Struct '" \o structure.name \o "' has many fields ("
            \o ToString(Len(structure.fields)) \o ") - consider splitting">>
    ELSE <<>>

\* The Stylus arm for one function, lines 229-241.
StylusFunctionPatterns(function) ==
    (IF Contains(function.body, "Vec") \/ Contains(function.body, "HashMap")
     THEN <<"Dynamic allocation in function '" \o function.name
             \o "' - consider fixed size">>
     ELSE <<>>)
    \o (IF Contains(function.body, "clone") \/ Contains(function.body, "to_owned")
        THEN <<"Memory clone in function '" \o function.name \o "' - consider reference">>
        ELSE <<>>)
    \o (IF ~Contains(function.body, "Result") /\ ~Contains(function.body, "Option")
        THEN <<"Function '" \o function.name \o "' might need explicit error handling">>
        ELSE <<>>)

\* The Stylus arm for one structure, lines 247-250.
StylusStructPatterns(structure, source_) ==
    IF ~Has(source_, "#[derive(Serialize")
    THEN <<"Struct '" \o structure.name \o "' might need serialization attributes">>
    ELSE <<>>

\* The concatenation of the sequences of a sequence.
RECURSIVE Flatten(_)
Flatten(seqs) ==
    IF seqs = <<>> THEN <<>> ELSE Head(seqs) \o Flatten(Tail(seqs))

\* ParsedContract::analyze_patterns
analyze_patterns(self) ==
    IF self.contract_type = "Solidity"
    THEN Flatten([j \in DOMAIN self.functions |-> FunctionPatterns(self.functions[j])])
         \o Flatten([j \in DOMAIN self.structs |-> StructPatterns(self.structs[j])])
    ELSE Flatten([j \in DOMAIN self.functions |->
                    StylusFunctionPatterns(self.functions[j])])
         \o Flatten([j \in DOMAIN self.structs |->
                    StylusStructPatterns(self.structs[j], self.source)])

----------------------------------------------------------------------------
(* Parser state machine: ParsedContract::new on an input, then                *)
(* analyze_patterns on the contract it returned.                              *)

MaxFields == 6
MaxParts == 2

Visibilities == {"public", "external", "internal", "private", ""}

\* Function bodies as written, with their {:?} rendering (locations left out).
Bodies ==
    { [src |-> "{ }",
       debug |-> "Block { unchecked: false, statements: [] }"],
      [src |-> "{ forward(); }",
       debug |-> "Block { unchecked: false, statements: [Expression(FunctionCall("
                    \o "Variable(Identifier { name: \"forward\" }), []))] }"] }

\* "f1", .., "fn": the field names of a generated struct.
FieldNames(n) == [j \in 1..n |-> "f" \o ToString(j)]

RECURSIVE FieldsSrc(_)
FieldsSrc(names) ==
    IF names = <<>> THEN ""
    ELSE "uint " \o Head(names) \o "; " \o FieldsSrc(Tail(names))

\* The parts a generated contract is made of: [ast, src], the tree of the
\* part and the text it was read from.
SolidityFunctions ==
    { [ast |-> FunctionDefinition(Some("mint"), v, <<>>, Some(b.debug)),
       src |-> "function mint() " \o v \o " " \o b.src] :
        v \in Visibilities, b \in Bodies }
    \cup
    { [ast |-> FunctionDefinition(Some("sweep"), "external",
                    <<Some("a"), Some("b"), Some("c"), Some("d"), Some("e")>>, None),
       src |-> "function sweep(uint a, uint b, uint c, uint d, uint e) external;"],
      [ast |-> FunctionDefinition(None, "public", <<>>,
                    Some("Block { unchecked: false, statements: [] }")),
       src |-> "constructor() public { }"] }

SolidityStructs ==
    { [ast |-> StructDefinition(Some("Position"), [j \in 1..n |-> Some(FieldNames(n)[j])]),
       src |-> "struct Position { " \o FieldsSrc(FieldNames(n)) \o "}"] :
        n \in 0..MaxFields }

ContractParts ==
    SolidityFunctions \cup SolidityStructs
        \cup { [ast |-> OtherPart, src |-> "uint public total;"] }

RECURSIVE PartsSrc(_)
PartsSrc(parts) ==
    IF parts = <<>> THEN ""
    ELSE Head(parts).src \o " " \o PartsSrc(Tail(parts))

\* A Solidity file of one contract with the given parts.
SolidityInput(parts) ==
    Input(<<Text("contract C { " \o PartsSrc(parts) \o "}")>>,
          Some(<<ContractDefinition([j \in DOMAIN parts |-> parts[j].ast])>>),
          None)

\* A Solidity file with a struct outside its contract.
FileLevelInput(s) ==
    Input(<<Text(s.src \o " contract C { }")>>,
          Some(<<FileLevel(s.ast), ContractDefinition(<<>>)>>),
          None)

\* Rust files, texts both grammars accept, and a text neither accepts.
OtherInputs ==
    { Input(<<Text("pub fn read(v: Vec<u8>) -> u8 { v.clone()[0] }")>>, None,
            Some(<<ItemFn("read", TRUE, "{ v . clone () [0] }")>>)),
      Input(<<Text("use core::fmt; fn check() -> Result<(), ()> { Ok(()) }")>>, None,
            Some(<<ItemOther, ItemFn("check", FALSE, "{ Ok (()) }")>>)),
      Input(<<Text("pub struct Token { pub balance: u256 }")>>, None,
            Some(<<ItemStruct("Token", <<Field("pub", Some("balance"), "u256")>>)>>)),
      Input(<<Text("#[derive(Serialize)] struct Pair(u8, u8);")>>, None,
            Some(<<ItemStruct("Pair", <<Field("", None, "u8"), Field("", None, "u8")>>)>>)),
      Input(<<>>, Some(<<>>), Some(<<>>)),
      Input(<<Text("// SPDX-License-Identifier: MIT")>>, Some(<<>>), Some(<<>>)),
      Input(<<Text("struct Empty {}")>>,
            Some(<<FileLevel(StructDefinition(Some("Empty"), <<>>))>>),
            Some(<<ItemStruct("Empty", <<>>)>>)),
      Input(<<Text("unsafe { let p: *mut u8 = raw; call(p) ")>>, None, None) }

ParserInputs ==
    { SolidityInput(parts) :
        parts \in UNION { [1..n -> ContractParts] : n \in 0..MaxParts } }
    \cup { FileLevelInput(s) : s \in SolidityStructs }
    \cup OtherInputs

ParserInit ==
    /\ input \in ParserInputs
    /\ contract = NotParsed
    /\ pattern_list = None
    /\ StylusIdle
    /\ source = <<>>
    /\ outcomes = <<>>
    /\ ReportStart
    /\ DetectorStart
    /\ RunnerIdle

\* ParsedContract::new(input)
New ==
    /\ contract.state = "none"
    /\ contract' = new(input)
    /\ UNCHANGED <<input, pattern_list, stylusVars, source, outcomes,
                   reportVars, detectorVars, runnerVars, mainVars>>

\* contract.analyze_patterns()
AnalyzePatterns ==
    /\ contract.state = "ok"
    /\ ~pattern_list.some
    /\ pattern_list' = Some(analyze_patterns(contract))
    /\ UNCHANGED <<input, contract, stylusVars, source, outcomes,
                   reportVars, detectorVars, runnerVars, mainVars>>

ParserNext ==
    \/ New
    \/ AnalyzePatterns

SpecParser == ParserInit /\ [][ParserNext]_vars

----------------------------------------------------------------------------
(* Claims about the parser, checked under SpecParser *)

\* The struct definitions written inside the contracts of a Solidity input.
RECURSIVE DeclaredStructs(_)
DeclaredStructs(units) ==
    IF units = <<>> THEN <<>>
    ELSE (IF Head(units).unit = "ContractDefinition"
          THEN SelectSeq(Head(units).parts, LAMBDA p : p.part = "StructDefinition")
          ELSE <<>>)
         \o DeclaredStructs(Tail(units))

\* The entry is the struct-size finding of a structure.
IsStructSize(p) == Contains(p, "Struct '") /\ Contains(p, "' has many fields")

\* The entry is a finding about a function.
IsFunctionLevel(p) == Contains(p, "unction '")

\* C21: for a Solidity contract, analyze_patterns returns one struct-size
\* finding for each structure of the contract that has more than 5 fields and
\* none for a structure of 5 fields or fewer, and a struct-size finding is an
\* entry of its own, apart from the findings about functions.
C21_ScenarioD ==
    (pattern_list.some /\ contract.contract_type = "Solidity")
    => LET declared == DeclaredStructs(input.solidity.val)
           large == SelectSeq(declared, LAMBDA s : Len(s.fields) > 5)
           sized == SelectSeq(pattern_list.val, IsStructSize)
       IN  /\ Len(sized) = Len(large)
           /\ \A j \in DOMAIN sized :
                /\ Contains(sized[j], "Struct '" \o large[j].name.val \o "'")
                /\ Contains(sized[j], "(" \o ToString(Len(large[j].fields)) \o ")")
                /\ ~IsFunctionLevel(sized[j])
           /\ \A j \in DOMAIN pattern_list.val :
                IsStructSize(pattern_list.val[j]) \/ IsFunctionLevel(pattern_list.val[j])

\* A contract with a structure of six fields and a function with a finding
\* was analysed, and so was one with a structure of five fields.
C21_Witness ==
    /\ pattern_list.some
    /\ contract.contract_type = "Solidity"
    /\ \E s \in DOMAIN contract.structs : Len(contract.structs[s].fields) = 6
    /\ \E j \in DOMAIN pattern_list.val : IsStructSize(pattern_list.val[j])
    /\ \E j \in DOMAIN pattern_list.val : IsFunctionLevel(pattern_list.val[j])

\* A contract whose only structure has exactly five fields was analysed.
C21_FiveFieldsWitness ==
    /\ pattern_list.some
    /\ contract.contract_type = "Solidity"
    /\ Len(contract.structs) = 1
    /\ Len(contract.structs[1].fields) = 5
    /\ \A j \in DOMAIN pattern_list.val : ~IsStructSize(pattern_list.val[j])

\* C22: ParsedContract::new either fails and produces no contract, or returns
\* a contract tagged with exactly one of Solidity and Stylus; it is tagged
\* Stylus only when the Solidity grammar rejected the input, so an input both
\* grammars accept is tagged Solidity; it fails only when both reject it.
C22_DialectExclusivity ==
    contract.state # "none"
    => /\ contract.state \in {"ok", "err"}
       /\ contract.state = "err"
            <=> (~input.solidity.some /\ ~input.rust.some)
       /\ contract.state = "err"
            => /\ contract.contract_type = ""
               /\ contract.error = ParseError
       /\ contract.state = "ok"
            => /\ contract.contract_type \in {"Solidity", "Stylus"}
               /\ contract.contract_type = "Solidity" <=> input.solidity.some
               /\ contract.contract_type = "Stylus"
                    <=> (~input.solidity.some /\ input.rust.some)

\* An input that both grammars accept, with a struct in it, was parsed and
\* tagged Solidity.
C22_Witness ==
    /\ contract.state = "ok"
    /\ input.solidity.some
    /\ input.rust.some
    /\ input.rust.val # <<>>
    /\ contract.contract_type = "Solidity"

\* The named function definitions written inside the contracts of a Solidity
\* input.
RECURSIVE DeclaredFunctions(_)
DeclaredFunctions(units) ==
    IF units = <<>> THEN <<>>
    ELSE (IF Head(units).unit = "ContractDefinition"
          THEN SelectSeq(Head(units).parts,
                         LAMBDA p : p.part = "FunctionDefinition" /\ p.name.some)
          ELSE <<>>)
         \o DeclaredFunctions(Tail(units))

PublicFunctionFinding(name) ==
    "Public function '" \o name \o "' - ensure proper access control"

\* C29: for a Solidity contract, analyze_patterns returns the finding
\* "Public function '<name>' - ensure proper access control" for exactly the
\* functions declared public or external in the source: as many entries for a
\* name as there are such functions of that name.
C29_PublicFunctionPattern ==
    (pattern_list.some /\ contract.contract_type = "Solidity")
    => LET declared == DeclaredFunctions(input.solidity.val)
           open == SelectSeq(declared,
                      LAMBDA p : declared_visibility(p) \in {"public", "external"})
       IN  /\ \A j \in DOMAIN open :
                Count(pattern_list.val, PublicFunctionFinding(open[j].name.val))
                    = Len(SelectSeq(open, LAMBDA p : p.name = open[j].name))
           /\ \A j \in DOMAIN pattern_list.val :
                Contains(pattern_list.val[j], "Public function '")
                    => \E k \in DOMAIN open :
                          pattern_list.val[j] = PublicFunctionFinding(open[k].name.val)

\* What the code does instead: no Solidity contract gets the finding.
C29_NeverEmitted ==
    (pattern_list.some /\ contract.contract_type = "Solidity")
    => \A j \in DOMAIN pattern_list.val :
            ~Contains(pattern_list.val[j], "Public function '")

\* A Solidity contract with a function declared external was analysed.
C29_NeverEmittedWitness ==
    /\ pattern_list.some
    /\ contract.contract_type = "Solidity"
    /\ \E j \in DOMAIN DeclaredFunctions(input.solidity.val) :
            DeclaredFunctions(input.solidity.val)[j].visibility = "external"

----------------------------------------------------------------------------
(* Stylus source analyzer: src/src/stylus/analyzer.rs                         *)
(* The content is an ASCII string; `ast` is what syn::parse_file reads in     *)
(* it, None when it rejects the content.  A struct field of the tree is       *)
(* [vis, ident, ty]: ty is the type as a token stream prints it.              *)

InClass(c, class) == \E i \in 1..Len(class) : CharAt(class, i) = c

Digits == "0123456789"
IdentStart == LowerCase \o UpperCase \o "_"
IdentChars == IdentStart \o Digits
WhiteSpace == " \n\t"

\* The first position from p on whose character is not in the class;
\* Len(s) + 1 when there is none.
RECURSIVE SkipClass(_, _, _)
SkipClass(s, p, class) ==
    IF p <= Len(s) /\ InClass(CharAt(s, p), class)
    THEN SkipClass(s, p + 1, class)
    ELSE p

\* The first position from p on at which k occurs in s; 0 when there is none.
RECURSIVE IndexOf(_, _, _)
IndexOf(s, k, p) ==
    IF p + Len(k) - 1 > Len(s) THEN 0
    ELSE IF SubSeq(s, p, p + Len(k) - 1) = k THEN p
    ELSE IndexOf(s, k, p + 1)

\* str::trim
RECURSIVE trim(_)
trim(s) ==
    IF s = "" THEN s
    ELSE IF InClass(CharAt(s, 1), WhiteSpace) THEN trim(SubSeq(s, 2, Len(s)))
    ELSE IF InClass(CharAt(s, Len(s)), WhiteSpace) THEN trim(SubSeq(s, 1, Len(s) - 1))
    ELSE s

\* The pieces of s between newlines.
RECURSIVE Lines(_)
Lines(s) ==
    LET nl == IndexOf(s, "\n", 1)
    IN  IF nl = 0 THEN <<s>>
        ELSE <<SubSeq(s, 1, nl - 1)>> \o Lines(SubSeq(s, nl + 1, Len(s)))

\* captures_iter of struct_pattern,
\*   pub struct ([a-zA-Z_][a-zA-Z0-9_]*)\s*\{([^}]*)\}
\* from position p on: the second group of each match.
RECURSIVE struct_pattern(_, _)
struct_pattern(s, p) ==
    LET i == IndexOf(s, "pub struct ", p)
    IN  IF i = 0 THEN <<>>
        ELSE LET n0 == i + Len("pub struct ")
                 named == n0 <= Len(s) /\ InClass(CharAt(s, n0), IdentStart)
                 n1 == SkipClass(s, n0 + 1, IdentChars)
                 n2 == SkipClass(s, n1, WhiteSpace)
                 open == named /\ n2 <= Len(s) /\ CharAt(s, n2) = "{"
                 close == IF open THEN IndexOf(s, "}", n2 + 1) ELSE 0
             IN  IF close # 0
                 THEN <<SubSeq(s, n2 + 1, close - 1)>> \o struct_pattern(s, close + 1)
                 ELSE struct_pattern(s, i + 1)

\* field_pattern, (?m)^\s*([a-zA-Z_][a-zA-Z0-9_]*)\s*:\s*([^,\n]+), on one
\* line of the fields (no identifier is separated from its colon by a line
\* break in the inputs): a match starts at the beginning of the line, so a
\* line gives at most one field.  The result is the formatted entry.
field_pattern(line) ==
    LET a == SkipClass(line, 1, WhiteSpace)
        named == a <= Len(line) /\ InClass(CharAt(line, a), IdentStart)
        b == SkipClass(line, a + 1, IdentChars)
        c == SkipClass(line, b, WhiteSpace)
        colon == named /\ c <= Len(line) /\ CharAt(line, c) = ":"
        d == SkipClass(line, c + 1, WhiteSpace)
        comma == IndexOf(line, ",", d)
        e == IF comma = 0 THEN Len(line) + 1 ELSE comma
        \* [^,\n]+ needs a character: \s* gives one back if it took any
        from == IF d < e THEN d ELSE d - 1
    IN  IF colon /\ from > c /\ from < e
        THEN <<SubSeq(line, a, b - 1) \o ": " \o trim(SubSeq(line, from, e - 1))>>
        ELSE <<>>

\* field.to_token_stream().to_string(): the tokens of the field, visibility
\* included, separated by single spaces.
field_tokens(field) ==
    (IF field.vis = "" THEN "" ELSE field.vis \o " ")
        \o (IF field.ident.some THEN field.ident.val \o " : " ELSE "")
        \o field.ty

NoAnalyzer == [made |-> FALSE, content |-> "", ast |-> None]

\* StylusAnalyzer::from_string
from_string(content, ast) == [made |-> TRUE, content |-> content, ast |-> ast]

\* StylusAnalyzer::extract_state_variables
extract_state_variables(self) ==
    IF self.ast.some
    THEN LET structs == SelectSeq(self.ast.val, LAMBDA it : it.item = "Struct")
         IN  Flatten([s \in DOMAIN structs |->
                        [j \in DOMAIN structs[s].fields |->
                            field_tokens(structs[s].fields[j])]])
    ELSE LET bodies == struct_pattern(self.content, 1)
         IN  Flatten([s \in DOMAIN bodies |->
                        Flatten([l \in DOMAIN Lines(bodies[s]) |->
                                    field_pattern(Lines(bodies[s])[l])])])

----------------------------------------------------------------------------
(* Stylus analyzer state machine: from_string on a content, then              *)
(* extract_state_variables.                                                   *)

MaxStateFields == 2

\* A named struct field: its visibility, its name, its type as written (src)
\* and as a token stream prints it (ty).
StateField(vis, ident, src, ty) ==
    [vis |-> vis, ident |-> Some(ident), src |-> src, ty |-> ty]

StateFields ==
    { StateField("pub", "balance", "u256", "u256"),
      StateField("", "owner", "Address", "Address"),
      StateField("pub", "data", "Vec<u8>", "Vec < u8 >") }

\* The field as written in the source.
FieldSrc(f) ==
    (IF f.vis = "" THEN "" ELSE f.vis \o " ") \o f.ident.val \o ": " \o f.src

RECURSIVE Joined(_, _)
Joined(strs, sep) ==
    IF strs = <<>> THEN ""
    ELSE IF Len(strs) = 1 THEN Head(strs)
    ELSE Head(strs) \o sep \o Joined(Tail(strs), sep)

\* The text of a struct Token with the given fields, on one line or with a
\* line for each field.
StructSrc(public, fields, one_line) ==
    LET srcs == [j \in DOMAIN fields |-> FieldSrc(fields[j])]
    IN  (IF public THEN "pub " ELSE "") \o "struct Token {"
        \o (IF one_line
            THEN " " \o Joined(srcs, ", ") \o " }"
            ELSE "\n    " \o Joined(srcs, ",\n    ") \o ",\n}")

\* What follows the struct in the content: nothing, or a fragment that makes
\* syn::parse_file reject the content.
Broken == "\nfn ("

StylusInputs ==
    { Input(StructSrc(public, fields, one_line) \o (IF parses THEN "" ELSE Broken),
            None,
            IF parses THEN Some(<<ItemStruct("Token", fields)>>) ELSE None) :
        public \in BOOLEAN, one_line \in BOOLEAN, parses \in BOOLEAN,
        fields \in UNION { [1..n -> StateFields] : n \in 1..MaxStateFields } }
    \cup
    { Input("pub fn transfer() {}", None, Some(<<ItemFn("transfer", TRUE, "{ }")>>)),
      Input("pub struct Pair(pub u8, u8);", None,
            Some(<<ItemStruct("Pair", <<[vis |-> "pub", ident |-> None, src |-> "u8", ty |-> "u8"],
                                        [vis |-> "", ident |-> None, src |-> "u8", ty |-> "u8"]>>)>>)) }

StylusInit ==
    /\ input \in StylusInputs
    /\ analyzer = NoAnalyzer
    /\ variables = None
    /\ contract = <<>>
    /\ pattern_list = <<>>
    /\ source = <<>>
    /\ outcomes = <<>>
    /\ ReportStart
    /\ DetectorStart
    /\ RunnerIdle

\* StylusAnalyzer::from_string(input)
FromString ==
    /\ ~analyzer.made
    /\ analyzer' = from_string(input.text, input.rust)
    /\ UNCHANGED <<variables, parserVars, source, outcomes,
                   reportVars, detectorVars, runnerVars, mainVars>>

\* analyzer.extract_state_variables()
ExtractStateVariables ==
    /\ analyzer.made
    /\ ~variables.some
    /\ variables' = Some(extract_state_variables(analyzer))
    /\ UNCHANGED <<analyzer, parserVars, source, outcomes,
                   reportVars, detectorVars, runnerVars, mainVars>>

StylusNext ==
    \/ FromString
    \/ ExtractStateVariables

SpecStylus == StylusInit /\ [][StylusNext]_vars

----------------------------------------------------------------------------
(* Claims about the Stylus analyzer, checked under SpecStylus *)

\* The named fields of the structs of the input, in declaration order.
NamedFields(items) ==
    LET structs == SelectSeq(items, LAMBDA it : it.item = "Struct")
    IN  Flatten([s \in DOMAIN structs |->
                    SelectSeq(structs[s].fields, LAMBDA f : f.ident.some)])

\* C23: for a source that is a struct with named fields,
\* extract_state_variables returns one entry for each field, in declaration
\* order, each reading "<field_name>: <field_type>" without the visibility
\* modifier of the field.
C23_StateVariables ==
    (variables.some /\ input.rust.some /\ NamedFields(input.rust.val) # <<>>)
    => LET fields == NamedFields(input.rust.val)
       IN  variables.val = [j \in DOMAIN fields |->
                                fields[j].ident.val \o ": " \o fields[j].src]

\* What the code returns for a source that parses: one entry for each field,
\* in declaration order, printed as a token stream.
C23_TokenStream ==
    (variables.some /\ input.rust.some /\ NamedFields(input.rust.val) # <<>>)
    => LET fields == NamedFields(input.rust.val)
       IN  variables.val = [j \in DOMAIN fields |-> field_tokens(fields[j])]

\* The state variables of "pub struct Token { pub balance: u256 }" were
\* extracted.
C23_TokenStreamWitness ==
    /\ variables.some
    /\ analyzer.content = "pub struct Token { pub balance: u256 }"
    /\ variables.val = <<"pub balance : u256">>

----------------------------------------------------------------------------
(* Checks of fresh weighted detectors on a source to which mitigating         *)
(* markers are added between the checks.                                      *)

MaxMarkers == 2
MaxFreshChecks == 2

\* Texts that hold the markers the scoring looks for besides the triggers.
Markers ==
    { " require!(msg.sender == owner);", " reentrancy_guard", " checked_add",
      " Box<u8> initialize version verify proof grace_period time_buffer" }

MitigationSources ==
    { <<Text("pub fn pay(&mut self, to: Address, amount: u256) { self.token.transfer(to, amount) }")>>,
      <<Text("unsafe fn upgrade(proxy: *mut u8) { bridge(proxy, block.timestamp) }")>>,
      <<Text("fn idle() {}")>> }

MitigationInit ==
    /\ source \in MitigationSources
    /\ outcomes = <<>>
    /\ ReportStart
    /\ DetectorStart
    /\ RunnerIdle
    /\ ParserIdle
    /\ StylusIdle

\* check(source) on a fresh AIPatternDetector.
CheckFresh ==
    /\ Len(outcomes) < MaxFreshChecks
    /\ outcomes' = Append(outcomes,
          [kind |-> "AIPatternDetector", content |-> source,
           vulnerabilities |-> detector_check(<<>>, source).vulnerabilities])
    /\ UNCHANGED <<source, reportVars, detectorVars, runnerVars, mainVars,
                   parserVars, stylusVars>>

\* The source is edited: a mitigating marker is added to it.
AddMarker(m) ==
    /\ ~Has(source, m)
    /\ Cardinality({ k \in Markers : Has(source, k) }) < MaxMarkers
    /\ source' = AppendText(source, m)
    /\ UNCHANGED <<outcomes, reportVars, detectorVars, runnerVars, mainVars,
                   parserVars, stylusVars>>

MitigationNext ==
    \/ CheckFresh
    \/ \E m \in Markers : AddMarker(m)

SpecMitigation == MitigationInit /\ [][MitigationNext]_vars

----------------------------------------------------------------------------
(* Claims about mitigating markers, checked under SpecMitigation *)

\* The categories with a base confidence above the threshold: the pattern,
\* the substrings that trigger it, the name of its vulnerability.
Category(pattern, triggers, vulnerability) ==
    [pattern |-> pattern, triggers |-> triggers, vulnerability |-> vulnerability]

HighBaseCategories ==
    { Category("Access Control Risk", {"pub fn", "public", "external"},
               "Missing Access Control"),
      Category("Memory Safety Risk", {"unsafe", "*mut", "*const", "raw pointer"},
               "Memory Safety Issue"),
      Category("Reentrancy Risk", {"external_call", "send", "transfer", "call"},
               "Reentrancy Vulnerability"),
      Category("Arithmetic Safety Risk", {"u256", "u128", "arithmetic", "math"},
               "Arithmetic Safety Risk"),
      Category("Upgrade Safety", {"upgrade", "proxy", "implementation"},
               "Upgrade Safety Concerns"),
      Category("Cross-chain Security", {"bridge", "cross-chain", "L1", "L2"},
               "Cross-chain Interaction Risks"),
      Category("Timestamp Dependence", {"timestamp", "block.timestamp", "now"},
               "Timestamp Dependence Vulnerability") }

TriggersIn(cat, content) == { t \in cat.triggers : Has(content, t) }

EmittedFor(cat, vulns) == SelectSeq(vulns, LAMBDA v : v.name = cat.vulnerability)

\* C30: for each category with a base confidence above 0.80, two checks on
\* fresh detectors of contents that hold the same triggers of the category
\* return the same vulnerability for it, whatever mitigating markers the
\* contents hold; it is emitted whenever a trigger is present.
C30_MitigationIndependence ==
    \A i, j \in DOMAIN outcomes :
        \A cat \in HighBaseCategories :
            TriggersIn(cat, outcomes[i].content) = TriggersIn(cat, outcomes[j].content)
            => /\ EmittedFor(cat, outcomes[i].vulnerabilities)
                    = EmittedFor(cat, outcomes[j].vulnerabilities)
               /\ Len(EmittedFor(cat, outcomes[i].vulnerabilities))
                    = (IF TriggersIn(cat, outcomes[i].content) = {} THEN 0 ELSE 1)

\* A source that triggers the access-control, reentrancy and arithmetic
\* categories was checked before and after two mitigating markers were added,
\* and the three vulnerabilities were returned both times.
C30_Witness ==
    \E i, j \in DOMAIN outcomes :
        /\ ~Has(outcomes[i].content, "reentrancy_guard")
        /\ ~Has(outcomes[i].content, "checked_add")
        /\ Has(outcomes[j].content, "reentrancy_guard")
        /\ Has(outcomes[j].content, "checked_add")
        /\ \A cat \in HighBaseCategories :
              cat.pattern \in {"Access Control Risk", "Reentrancy Risk",
                               "Arithmetic Safety Risk"}
              => /\ TriggersIn(cat, outcomes[i].content) # {}
                 /\ TriggersIn(cat, outcomes[i].content) = TriggersIn(cat, outcomes[j].content)
                 /\ Len(EmittedFor(cat, outcomes[j].vulnerabilities)) = 1

====
